---- MODULE Spec2Model ----
(***************************************************************************)
(* SprintScope: the SQL safety gate (validateSQL, src/lib/llm.ts), the     *)
(* query executor and the repair step (execute_query, repair_sql,          *)
(* src/lib/tools.ts), the sequential chat handler and the tool-use chat    *)
(* handler (POST, src/app/page.tsx), the schema lookup (get_schema,        *)
(* src/lib/tools.ts), the health route (GET, src/app/api/health/route.ts)  *)
(* and the page with its chat console and composer (SprintScopePage,       *)
(* src/app/page.tsx; ChatConsole, Composer, src/components/ChatConsole.tsx).*)
(*                                                                         *)
(* A JavaScript string is a sequence of one-character strings, so that     *)
(* trimming, whitespace collapsing, splitting and the regular expressions  *)
(* of validateSQL are computed character by character as the code does.    *)
(* An optional field (error?, sanitizedSql?) is <<>> when absent and <<v>> *)
(* when present.                                                           *)
(***************************************************************************)
EXTENDS Naturals, Sequences, FiniteSets

VARIABLES
    \* validateSQL applied on its own
    gpc,            \* "input", "validated", "revalidated" ("off" in the other specifications)
    gSql,           \* the text given to validateSQL
    gConfig,        \* the policy given to validateSQL
    gResult,        \* validateSQL(gSql, gConfig)
    gAgain,         \* validateSQL(gResult.sanitizedSql, gConfig)
    \* one request of the sequential chat handler
    pc,             \* where POST is: the call it awaits, "done" after its response
    envOk,          \* the Supabase URL and key are configured
    genResult,      \* what generate_sql returned
    generatedSql,   \* let generatedSql
    usedRepair,     \* let usedRepair
    execResult,     \* let execResult: <<>> before the first execute_query returns
    repairResult,   \* const repairResult: <<>> before repair_sql returns
    xq,             \* the running execute_query call: its number, argument, position
    response,       \* the response of POST: <<>> until it is sent
    invoked,        \* the tool functions called so far, in order
    dbCalls,        \* the requests sent to the database so far, in order
    execLog,        \* per execute_query call: its argument, its validation, its result
    \* repair_sql applied on its own
    rpc,            \* "input", "repaired" ("off" in the other specifications)
    rFailedSql,     \* the failedSql given to repair_sql
    rOutcome,       \* what the environment and the generation service give the call
    rResult,        \* what repair_sql returned: <<>> before it returns
    \* one request of the tool-use chat handler
    tpc,            \* where it is: "request", "model", "tools", "done"
    tTurns,         \* the responses with stop_reason 'tool_use' received so far
    tBlocks,        \* the tool_use blocks of the latest response not yet run
    tResults,       \* toolResultsArray of the latest response, as far as built
    tRan,           \* how many times executeTool ran each tool
    toolUseCount,   \* let toolUseCount
    tResponse,      \* the response of the handler: <<>> until it is sent
    \* get_schema applied on its own
    spc,            \* "call", "returned", "threw" ("off" in the other specifications)
    sConfigured,    \* the Supabase URL and key are configured
    sRpc,           \* what supabase.rpc('exec_sql', ...) gives the call
    sRest,          \* what fetch() of the REST endpoint gives the call
    sResult,        \* what get_schema returned: <<>> before it returns
    \* one GET of the health route
    kpc,            \* "request", "responded" ("off" in the other specifications)
    kEnv,           \* process.env
    kNow,           \* new Date()
    kResponse,      \* the response of GET: <<>> until it is sent
    \* the page component
    upc,            \* "mounted" ("off" in the other specifications)
    messages,       \* const [messages, setMessages]
    isLoading,      \* const [isLoading, setIsLoading]
    queryData,      \* const [queryData, setQueryData]: <<>> for null
    input,          \* const [input, setInput] of Composer
    inFlight,       \* the handleRunQuery calls awaiting fetch('/api/chat')
    started         \* how many handleRunQuery calls there were

gvars == <<gpc, gSql, gConfig, gResult, gAgain>>
hvars == <<pc, envOk, genResult, generatedSql, usedRepair, execResult, repairResult,
           xq, response, invoked, dbCalls, execLog>>
rvars == <<rpc, rFailedSql, rOutcome, rResult>>
tvars == <<tpc, tTurns, tBlocks, tResults, tRan, toolUseCount, tResponse>>
svars == <<spc, sConfigured, sRpc, sRest, sResult>>
kvars == <<kpc, kEnv, kNow, kResponse>>
uvars == <<upc, messages, isLoading, queryData, input, inFlight, started>>
vars == <<gvars, hvars, rvars, tvars, svars, kvars, uvars>>

(***************************************************************************)
(* Characters                                                              *)
(***************************************************************************)
LowerChars == <<"a", "b", "c", "d", "e", "f", "g", "h", "i", "j", "k", "l", "m",
                "n", "o", "p", "q", "r", "s", "t", "u", "v", "w", "x", "y", "z">>
UpperChars == <<"A", "B", "C", "D", "E", "F", "G", "H", "I", "J", "K", "L", "M",
                "N", "O", "P", "Q", "R", "S", "T", "U", "V", "W", "X", "Y", "Z">>
DigitChars == <<"0", "1", "2", "3", "4", "5", "6", "7", "8", "9">>

Range(f) == {f[i] : i \in DOMAIN f}

LowerSet == Range(LowerChars)
UpperSet == Range(UpperChars)
DigitSet == Range(DigitChars)

\* \s of a JavaScript regular expression and of String.prototype.trim
WhiteSpace == {" ", "\t", "\n"}
\* \w of a JavaScript regular expression: [A-Za-z0-9_]
WordChars == LowerSet \cup UpperSet \cup DigitSet \cup {"_"}
\* \d
IsDigit(c) == c \in DigitSet

UpperMap == [c \in LowerSet |-> UpperChars[CHOOSE i \in 1..26 : LowerChars[i] = c]]
LowerMap == [c \in UpperSet |-> LowerChars[CHOOSE i \in 1..26 : UpperChars[i] = c]]
DigitMap == [c \in DigitSet |-> (CHOOSE i \in 1..10 : DigitChars[i] = c) - 1]

toUpperChar(c) == IF c \in LowerSet THEN UpperMap[c] ELSE c
toLowerChar(c) == IF c \in UpperSet THEN LowerMap[c] ELSE c

\* String.prototype.toUpperCase / toLowerCase
toUpperCase(s) == [i \in 1..Len(s) |-> toUpperChar(s[i])]
toLowerCase(s) == [i \in 1..Len(s) |-> toLowerChar(s[i])]

(***************************************************************************)
(* String operations used by validateSQL                                   *)
(***************************************************************************)
\* String.prototype.trim: drop the leading and the trailing whitespace
trim(s) ==
    LET keep == {i \in 1..Len(s) : s[i] \notin WhiteSpace}
    IN  IF keep = {} THEN <<>>
        ELSE LET a == CHOOSE i \in keep : \A j \in keep : i <= j
                 b == CHOOSE i \in keep : \A j \in keep : j <= i
             IN  SubSeq(s, a, b)

\* s.replace(/\s+/g, ' '): every maximal run of whitespace becomes one space
RECURSIVE collapseFrom(_, _)
collapseFrom(s, i) ==
    IF i > Len(s) THEN <<>>
    ELSE IF s[i] \in WhiteSpace
         THEN IF i > 1 /\ s[i-1] \in WhiteSpace
              THEN collapseFrom(s, i + 1)
              ELSE <<" ">> \o collapseFrom(s, i + 1)
         ELSE <<s[i]>> \o collapseFrom(s, i + 1)

collapseWhitespace(s) == collapseFrom(s, 1)

\* const normalizedSql = sql.trim().replace(/\s+/g, ' ')
normalizeSql(sql) == collapseWhitespace(trim(sql))

\* String.prototype.split(sep): the fragments between the separators, the
\* empty ones included ("".split(';') is [""])
RECURSIVE splitFrom(_, _, _, _)
splitFrom(s, sep, i, start) ==
    IF i > Len(s) THEN <<SubSeq(s, start, Len(s))>>
    ELSE IF s[i] = sep
         THEN <<SubSeq(s, start, i - 1)>> \o splitFrom(s, sep, i + 1, i + 1)
         ELSE splitFrom(s, sep, i + 1, start)

split(s, sep) == splitFrom(s, sep, 1, 1)

IsNonEmptyFragment(f) == Len(trim(f)) > 0

\* a mutant of statements: the empty fragments are not filtered out
statementsUnfiltered(normalizedSql) == split(normalizedSql, ";")

\* normalizedSql.split(';').filter(s => s.trim().length > 0)
statements(normalizedSql) == SelectSeq(split(normalizedSql, ";"), IsNonEmptyFragment)

\* the characters of s from position i on equal word, compared
\* case-insensitively (word is in upper case): a literal of an /i regex
matchesAt(s, i, word) ==
    /\ i >= 1
    /\ i + Len(word) - 1 <= Len(s)
    /\ \A j \in 1..Len(word) : toUpperChar(s[i + j - 1]) = word[j]

IsWordAt(s, p) == p >= 1 /\ p <= Len(s) /\ s[p] \in WordChars

\* \b between the positions p-1 and p
wordBoundary(s, p) == IsWordAt(s, p - 1) # IsWordAt(s, p)

\* a mutant of keywordRegexTest: the keyword matched without \b
keywordSubstringTest(s, keyword) ==
    \E i \in 1..Len(s) : matchesAt(s, i, keyword)

\* new RegExp(`\\b${keyword}\\b`, 'i').test(s)
keywordRegexTest(s, keyword) ==
    \E i \in 1..Len(s) :
        /\ matchesAt(s, i, keyword)
        /\ wordBoundary(s, i)
        /\ wordBoundary(s, i + Len(keyword))

\* String.prototype.startsWith
startsWith(s, prefix) ==
    /\ Len(prefix) <= Len(s)
    /\ \A j \in 1..Len(prefix) : s[j] = prefix[j]

\* the end (last position) of the maximal run of characters of class at i..,
\* or i - 1 when s[i] is not in class
RECURSIVE runEnd(_, _, _)
runEnd(s, i, class) ==
    IF i <= Len(s) /\ s[i] \in class THEN runEnd(s, i + 1, class) ELSE i - 1

\* parseInt(digits, 10) of a run of decimal digits
RECURSIVE parseIntFrom(_, _, _)
parseIntFrom(ds, i, acc) ==
    IF i > Len(ds) THEN acc ELSE parseIntFrom(ds, i + 1, acc * 10 + DigitMap[ds[i]])

parseInt(ds) == parseIntFrom(ds, 1, 0)

\* `${n}` of a non-negative integer
RECURSIVE numberToString(_)
numberToString(n) ==
    IF n < 10 THEN <<DigitChars[n + 1]>>
    ELSE numberToString(n \div 10) \o <<DigitChars[(n % 10) + 1]>>

\* Array.prototype.join
RECURSIVE join(_, _)
join(parts, sep) ==
    IF Len(parts) = 0 THEN <<>>
    ELSE IF Len(parts) = 1 THEN parts[1]
    ELSE parts[1] \o sep \o join(Tail(parts), sep)

(***************************************************************************)
(* validateSQL                                                             *)
(***************************************************************************)
KwSELECT == <<"S", "E", "L", "E", "C", "T">>
KwFROM   == <<"F", "R", "O", "M">>
KwJOIN   == <<"J", "O", "I", "N">>
KwLIMIT  == <<"L", "I", "M", "I", "T">>

forbiddenKeywords == <<
    [name |-> "INSERT",   chars |-> <<"I", "N", "S", "E", "R", "T">>],
    [name |-> "UPDATE",   chars |-> <<"U", "P", "D", "A", "T", "E">>],
    [name |-> "DELETE",   chars |-> <<"D", "E", "L", "E", "T", "E">>],
    [name |-> "DROP",     chars |-> <<"D", "R", "O", "P">>],
    [name |-> "ALTER",    chars |-> <<"A", "L", "T", "E", "R">>],
    [name |-> "TRUNCATE", chars |-> <<"T", "R", "U", "N", "C", "A", "T", "E">>],
    [name |-> "CREATE",   chars |-> <<"C", "R", "E", "A", "T", "E">>],
    [name |-> "GRANT",    chars |-> <<"G", "R", "A", "N", "T">>],
    [name |-> "REVOKE",   chars |-> <<"R", "E", "V", "O", "K", "E">>] >>

\* an error message: its text, and the values interpolated into it
Msg(text) == [text |-> text, table |-> <<>>, allowed |-> <<>>]

MultipleStatementsError ==
    Msg("Multiple statements detected. Only single-statement queries are allowed.")
ForbiddenKeywordError(name) ==
    Msg("Forbidden keyword detected: " \o name \o
        ". Only SELECT queries are allowed in read-only mode.")
OnlySelectError == Msg("Only SELECT statements are allowed in read-only mode.")
TableNotAllowedError(table, allowedTables) ==
    [text    |-> "Table \"${table}\" is not in the allowed list. Allowed tables: ${allowedTables.join(', ')}",
     table   |-> table,
     allowed |-> join(allowedTables, <<",", " ">>)]

\* a variant of Invalid: a rejection that still carries a statement
InvalidWithSql(error) == [isValid |-> FALSE, error |-> <<error>>, sanitizedSql |-> <<<<>>>>]

\* return { isValid: false, error } and return { isValid: true, sanitizedSql }
Invalid(error) == [isValid |-> FALSE, error |-> <<error>>, sanitizedSql |-> <<>>]
Valid(sanitizedSql) == [isValid |-> TRUE, error |-> <<>>, sanitizedSql |-> <<sanitizedSql>>]

\* for (const keyword of forbiddenKeywords) if (regex.test(normalizedSql)) ...:
\* the index of the first keyword of the list that matches, 0 when none does
firstForbidden(normalizedSql) ==
    LET hits == {k \in 1..Len(forbiddenKeywords) :
                    keywordRegexTest(normalizedSql, forbiddenKeywords[k].chars)}
    IN  IF hits = {} THEN 0 ELSE CHOOSE k \in hits : \A h \in hits : k <= h

\* a mutant of startsWithSelect: the case-sensitive test on normalizedSql
startsWithSelectCaseSensitive(normalizedSql) == startsWith(trim(normalizedSql), KwSELECT)

\* upperSql.trim().startsWith('SELECT'), upperSql = normalizedSql.toUpperCase()
startsWithSelect(normalizedSql) == startsWith(trim(toUpperCase(normalizedSql)), KwSELECT)

\* one match of /FROM\s+(\w+)|JOIN\s+(\w+)/i at position i: the position of
\* its last character, 0 when there is no match at i
tableMatchEnd(s, i) ==
    IF matchesAt(s, i, KwFROM) \/ matchesAt(s, i, KwJOIN)
    THEN LET ws == runEnd(s, i + 4, WhiteSpace)
             id == runEnd(s, ws + 1, WordChars)
         IN  IF ws >= i + 4 /\ id >= ws + 1 THEN id ELSE 0
    ELSE 0

\* the identifier captured by the match at i (match[1] || match[2])
tableMatchCapture(s, i) ==
    LET ws == runEnd(s, i + 4, WhiteSpace)
    IN  SubSeq(s, ws + 1, runEnd(s, ws + 1, WordChars))

\* normalizedSql.matchAll(tableRegex), the matches found from left to right
\* without overlap; referencedTables (a Set) keeps each lower-cased capture
\* once, in the order of its first occurrence
RECURSIVE referencedTablesFrom(_, _, _)
referencedTablesFrom(s, i, acc) ==
    IF i > Len(s) THEN acc
    ELSE LET e == tableMatchEnd(s, i)
         IN  IF e = 0 THEN referencedTablesFrom(s, i + 1, acc)
             ELSE LET table == toLowerCase(tableMatchCapture(s, i))
                  IN  referencedTablesFrom(s, e + 1,
                          IF table \in Range(acc) THEN acc ELSE Append(acc, table))

referencedTables(normalizedSql) == referencedTablesFrom(normalizedSql, 1, <<>>)

\* the first referenced table that allowedLower does not include, as <<table>>,
\* or <<>>
firstDisallowedTable(normalizedSql, allowedTables) ==
    LET refs == referencedTables(normalizedSql)
        allowedLower == {toLowerCase(allowedTables[k]) : k \in 1..Len(allowedTables)}
        bad == {k \in 1..Len(refs) : refs[k] \notin allowedLower}
    IN  IF bad = {} THEN <<>>
        ELSE <<refs[CHOOSE k \in bad : \A h \in bad : k <= h]>>

\* normalizedSql.match(/LIMIT\s+(\d+)/i): the first match as
\* [start, end, digits], with start = 0 when there is none
limitMatchAt(s, i) ==
    IF matchesAt(s, i, KwLIMIT)
    THEN LET ws == runEnd(s, i + 5, WhiteSpace)
             ds == runEnd(s, ws + 1, DigitSet)
         IN  IF ws >= i + 5 /\ ds >= ws + 1
             THEN [start |-> i, end |-> ds, digits |-> SubSeq(s, ws + 1, ds)]
             ELSE [start |-> 0, end |-> 0, digits |-> <<>>]
    ELSE [start |-> 0, end |-> 0, digits |-> <<>>]

limitMatch(s) ==
    LET at == {i \in 1..Len(s) : limitMatchAt(s, i).start # 0}
    IN  IF at = {} THEN [start |-> 0, end |-> 0, digits |-> <<>>]
        ELSE limitMatchAt(s, CHOOSE i \in at : \A j \in at : i <= j)

\* step 4 of validateSQL: append the default LIMIT, or cap the first LIMIT
enforceLimit(normalizedSql, defaultLimit, maxLimit) ==
    LET m == limitMatch(normalizedSql)
    IN  IF m.start = 0
        THEN normalizedSql \o <<" ">> \o KwLIMIT \o <<" ">> \o numberToString(defaultLimit)
        ELSE IF parseInt(m.digits) > maxLimit
             THEN SubSeq(normalizedSql, 1, m.start - 1)
                      \o KwLIMIT \o <<" ">> \o numberToString(maxLimit)
                      \o SubSeq(normalizedSql, m.end + 1, Len(normalizedSql))
             ELSE normalizedSql

validateSQL(sql, config) ==
    LET normalizedSql == normalizeSql(sql)
    IN  IF Len(statements(normalizedSql)) > 1
        THEN Invalid(MultipleStatementsError)
        ELSE IF config.readOnly /\ firstForbidden(normalizedSql) # 0
        THEN Invalid(ForbiddenKeywordError(
                 forbiddenKeywords[firstForbidden(normalizedSql)].name))
        ELSE IF config.readOnly /\ ~startsWithSelect(normalizedSql)
        THEN Invalid(OnlySelectError)
        ELSE IF Len(config.allowedTables) > 0
                /\ firstDisallowedTable(normalizedSql, config.allowedTables) # <<>>
        THEN Invalid(TableNotAllowedError(
                 firstDisallowedTable(normalizedSql, config.allowedTables)[1],
                 config.allowedTables))
        ELSE Valid(enforceLimit(normalizedSql, config.defaultLimit, config.maxLimit))

(***************************************************************************)
(* The policies and the SQL texts the safety gate is checked on            *)
(***************************************************************************)
\* execute_query's policy: {defaultLimit: 50, maxLimit: 500, readOnly: true},
\* allowedTables defaulting to []
ExecDefaultLimit == 50
ExecMaxLimit == 500

ExecConfig ==
    [defaultLimit |-> ExecDefaultLimit, maxLimit |-> ExecMaxLimit,
     allowedTables |-> <<>>, readOnly |-> TRUE]

TblIssues == <<"i", "s", "s", "u", "e", "s">>
TblIssuesCap == <<"I", "s", "s", "u", "e", "s">>
TblTeams  == <<"t", "e", "a", "m", "s">>
TblUsers  == <<"u", "s", "e", "r", "s">>

\* policies a caller may pass: read-only or not, with and without an allow-list
\* (one written in mixed case), limits with defaultLimit <= maxLimit
Policies ==
    { ExecConfig,
      [defaultLimit |-> 5, maxLimit |-> 5,
       allowedTables |-> <<TblIssuesCap>>, readOnly |-> TRUE],
      [defaultLimit |-> 2, maxLimit |-> 7,
       allowedTables |-> <<TblTeams, TblIssues>>, readOnly |-> FALSE] }

\* a SQL text is a head followed by pieces
Heads == { <<>>, <<"S", "e", "l", "e", "c", "t", " ", "x">> }

Vocabulary == <<
    <<"S", "e", "l", "e", "c", "t", " ", "x">>,
    <<" ", "f", "r", "o", "m", " ", "I", "s", "s", "u", "e", "s">>,
    <<" ", "J", "O", "I", "N", " ", "u", "s", "e", "r", "s">>,
    <<",", " ", "u", "s", "e", "r", "s">>,
    <<" ", "L", "I", "M", "I", "T", " ", "7">>,
    <<" ", "l", "i", "m", "i", "t", " ", "5", "0", "1">>,
    <<";">>,
    <<" ", "\n", " ">>,
    <<"d", "_", "a", "t">>,
    <<"C", "r", "e", "a", "t", "e">> >>

\* the number of pieces that follow the head
MaxPieces == 2

RECURSIVE TextsOf(_)
TextsOf(n) ==
    IF n = 0 THEN Heads
    ELSE LET shorter == TextsOf(n - 1)
         IN  shorter \cup {t \o Vocabulary[k] : t \in shorter, k \in 1..Len(Vocabulary)}

SqlTexts == TextsOf(MaxPieces)

(***************************************************************************)
(* The safety gate applied to a text, and applied again to its own output  *)
(***************************************************************************)
NoResult == [isValid |-> FALSE, error |-> <<>>, sanitizedSql |-> <<>>]

NoCall == [n |-> 0, sql |-> <<>>, sanitizedSql |-> <<>>, at |-> "idle", rpcError |-> <<>>]

ToolNames == {"get_schema", "execute_query", "repair_sql", "unknown_tool"}

SchemaOff ==
    /\ spc = "off"
    /\ sConfigured = FALSE
    /\ sRpc = <<>>
    /\ sRest = <<>>
    /\ sResult = <<>>

HealthOff ==
    /\ kpc = "off"
    /\ kEnv = <<>>
    /\ kNow = 0
    /\ kResponse = <<>>

PageOff ==
    /\ upc = "off"
    /\ messages = <<>>
    /\ isLoading = FALSE
    /\ queryData = <<>>
    /\ input = <<>>
    /\ inFlight = {}
    /\ started = 0

\* the parts of the program a specification leaves alone
FrontOff == SchemaOff /\ HealthOff /\ PageOff

RepairOff ==
    /\ rpc = "off"
    /\ rFailedSql = <<>>
    /\ rOutcome = <<>>
    /\ rResult = <<>>

ToolUseOff ==
    /\ tpc = "off"
    /\ tTurns = 0
    /\ tBlocks = <<>>
    /\ tResults = <<>>
    /\ tRan = [name \in ToolNames |-> 0]
    /\ toolUseCount = 0
    /\ tResponse = <<>>

HandlerOff ==
    /\ pc = "off"
    /\ envOk = TRUE
    /\ genResult = <<>>
    /\ generatedSql = <<>>
    /\ usedRepair = FALSE
    /\ execResult = <<>>
    /\ repairResult = <<>>
    /\ xq = NoCall
    /\ response = <<>>
    /\ invoked = <<>>
    /\ dbCalls = <<>>
    /\ execLog = <<>>

GuardInit ==
    /\ gpc = "input"
    /\ gSql \in SqlTexts
    /\ gConfig \in Policies
    /\ gResult = NoResult
    /\ gAgain = NoResult
    /\ HandlerOff
    /\ RepairOff
    /\ ToolUseOff
    /\ FrontOff

\* validateSQL(sql, config)
Validate ==
    /\ gpc = "input"
    /\ gResult' = validateSQL(gSql, gConfig)
    /\ gpc' = "validated"
    /\ UNCHANGED <<gSql, gConfig, gAgain, hvars, rvars, tvars, svars, kvars, uvars>>

\* validateSQL(sanitizedSql, config) on the output of an accepted text
Revalidate ==
    /\ gpc = "validated"
    /\ gResult.isValid
    /\ gAgain' = validateSQL(gResult.sanitizedSql[1], gConfig)
    /\ gpc' = "revalidated"
    /\ UNCHANGED <<gSql, gConfig, gResult, hvars, rvars, tvars, svars, kvars, uvars>>

GuardNext == Validate \/ Revalidate

SpecGuard == GuardInit /\ [][GuardNext]_vars

(***************************************************************************)
(* execute_query (src/lib/tools.ts) and the sequential chat handler POST   *)
(* (src/app/page.tsx). runtimeMs, a difference of two clock readings, is   *)
(* left out of the results.                                                *)
(***************************************************************************)
\* the number of rows the database returns
MaxRows == 2

RowsOf(n) == [i \in 1..n |-> i]
DbRowSets == {RowsOf(n) : n \in 0..MaxRows}

\* error.message of an error reported by the database or thrown by the
\* transport; "" stands for a missing or empty message
DbErrorMessages == {"column \"x\" does not exist", ""}
ThrownMessages == {"fetch failed", ""}

\* the tables of the schema: table_name IN ('teams', 'users', 'issues',
\* 'sprints', 'issue_status_events', 'issue_comments')
KnownTables ==
    { <<"t", "e", "a", "m", "s">>,
      <<"u", "s", "e", "r", "s">>,
      <<"i", "s", "s", "u", "e", "s">>,
      <<"s", "p", "r", "i", "n", "t", "s">>,
      <<"i", "s", "s", "u", "e", "_", "s", "t", "a", "t", "u", "s", "_", "e", "v", "e", "n", "t", "s">>,
      <<"i", "s", "s", "u", "e", "_", "c", "o", "m", "m", "e", "n", "t", "s">> }

\* " from secrets": a table that is not in the schema
FromSecrets == <<" ", "f", "r", "o", "m", " ", "s", "e", "c", "r", "e", "t", "s">>

\* the statements generate_sql and repair_sql may come up with
HandlerSqls ==
    { Vocabulary[1] \o Vocabulary[2],
      Vocabulary[1] \o Vocabulary[6],
      Vocabulary[1] \o Vocabulary[7],
      Vocabulary[10] \o Vocabulary[2],
      Vocabulary[1] \o Vocabulary[7] \o Vocabulary[10],
      Vocabulary[1] \o Vocabulary[5] \o Vocabulary[6],
      Vocabulary[1] \o FromSecrets }

\* a variant of messageOr: the message is used as it is, also when it is empty
messageOrEmpty(message, fallback) == Msg(message)

\* message || fallback
messageOr(message, fallback) == IF message = "" THEN Msg(fallback) ELSE Msg(message)

\* { rows: [], rowCount: 0, runtimeMs, error }
errorResult(error) == [rows |-> <<>>, rowCount |-> 0, error |-> <<error>>]

\* a variant of successResult: rowCount is not taken from the rows
successResultNoCount(rows) == [rows |-> rows, rowCount |-> 0, error |-> <<>>]

\* { rows, rowCount: rows.length, runtimeMs }
successResult(rows) == [rows |-> rows, rowCount |-> Len(rows), error |-> <<>>]

\* a variant of validationFailureResult: the validation error is dropped
validationFailureNoError(validation) == [rows |-> <<>>, rowCount |-> 0, error |-> <<>>]

\* if (!validation.isValid) return { rows: [], rowCount: 0, runtimeMs, error: validation.error }
validationFailureResult(validation) ==
    [rows |-> <<>>, rowCount |-> 0, error |-> validation.error]

\* a mutant of sanitizedSqlOf: the statement is sent as it was given
unsanitizedSqlOf(validation, sql) == sql

\* const sanitizedSql = validation.sanitizedSql || sql
sanitizedSqlOf(validation, sql) ==
    IF validation.sanitizedSql # <<>> /\ validation.sanitizedSql[1] # <<>>
    THEN validation.sanitizedSql[1]
    ELSE sql

\* if (execResult.error): the error is present and not the empty string
hasError(result) == result.error # <<>> /\ result.error[1].text # ""

\* a mutant of afterFirstExecute: an error of the first execution is not repaired
afterFirstExecuteNoRepair(result) == "explain_results"

\* Step 5: if (execResult.error) repair, else go on to explain
afterFirstExecute(result) ==
    IF hasError(result) THEN "repair_sql" ELSE "explain_results"

\* a mutant of afterSecondExecute: a failed retry is repaired again
afterSecondExecuteRepairAgain(result) ==
    IF hasError(result) THEN "repair_sql" ELSE "explain_results"

\* a mutant of afterSecondExecute: the error of the retry is not looked at
afterSecondExecuteIgnoreError(result) == "explain_results"

\* If still error, return error response; else go on to explain
afterSecondExecute(result) ==
    IF hasError(result) THEN "respond_failed" ELSE "explain_results"

\* NextResponse.json(...): the fields of the body the properties read
Response(status, kind, sql, error, results, rowCount, toolCalls) ==
    [status |-> status, kind |-> kind, sql |-> sql, error |-> error,
     results |-> results, rowCount |-> rowCount, toolCalls |-> toolCalls]

\* the catch of POST: status 500, toolCalls: []
InternalErrorResponse(message) ==
    Response(500, "error", <<>>, <<messageOr(message, "Internal server error")>>,
             <<>>, 0, <<>>)

Init ==
    /\ pc = "request"
    /\ envOk \in BOOLEAN
    /\ genResult = <<>>
    /\ generatedSql = <<>>
    /\ usedRepair = FALSE
    /\ execResult = <<>>
    /\ repairResult = <<>>
    /\ xq = NoCall
    /\ response = <<>>
    /\ invoked = <<>>
    /\ dbCalls = <<>>
    /\ execLog = <<>>
    /\ gpc = "off"
    /\ gSql = <<>>
    /\ gConfig = ExecConfig
    /\ gResult = NoResult
    /\ gAgain = NoResult
    /\ RepairOff
    /\ ToolUseOff
    /\ FrontOff

\* const body = await request.json(); if (!message) return 400
ReceiveRequest ==
    /\ pc = "request"
    /\ \E body \in {"message", "no message", "not json"} :
          CASE body = "message" ->
                 /\ pc' = "get_schema"
                 /\ UNCHANGED response
            [] body = "no message" ->
                 /\ pc' = "done"
                 /\ response' = <<Response(400, "error", <<>>, <<Msg("Message is required")>>,
                                           <<>>, 0, <<>>)>>
            [] body = "not json" ->
                 /\ pc' = "done"
                 /\ response' = <<InternalErrorResponse("Unexpected token")>>
    /\ UNCHANGED <<envOk, genResult, generatedSql, usedRepair, execResult, repairResult,
                   xq, invoked, dbCalls, execLog, gvars, rvars, tvars, svars, kvars, uvars>>

\* Step 1: schema = await get_schema(). get_schema calls getSupabaseClient()
\* outside its try and throws when the URL or the key is missing; every other
\* failure it catches and answers with a schema.
GetSchema ==
    /\ pc = "get_schema"
    /\ invoked' = Append(invoked, "get_schema")
    /\ IF envOk
       THEN /\ pc' = "generate_sql"
            /\ UNCHANGED response
       ELSE /\ pc' = "done"
            /\ response' = <<Response(500, "error", <<>>,
                                <<Msg("Supabase URL and key must be configured")>>,
                                <<>>, 0, <<"get_schema">>)>>
    /\ UNCHANGED <<envOk, genResult, generatedSql, usedRepair, execResult, repairResult,
                   xq, dbCalls, execLog, gvars, rvars, tvars, svars, kvars, uvars>>

\* what generate_sql returns: { sql: result.sql || null, isAmbiguous:
\* result.isAmbiguous || false }, or sql: null with isAmbiguous: true
\* JSON.parse gives result.sql whatever type the answer of the service has:
\* sqlIsString is FALSE for a truthy sql that is not a string (an array, say)
GenResults ==
    {[sql |-> <<s>>, isAmbiguous |-> b, sqlIsString |-> TRUE] :
         s \in HandlerSqls, b \in BOOLEAN}
        \cup {[sql |-> <<>>, isAmbiguous |-> b, sqlIsString |-> TRUE] : b \in BOOLEAN}
        \cup {[sql |-> <<Vocabulary[1] \o Vocabulary[2]>>, isAmbiguous |-> b,
               sqlIsString |-> FALSE] : b \in BOOLEAN}

\* a variant of needsClarification: only a missing sql is looked at
needsClarificationSqlOnly(g) == g.sql = <<>> \/ g.sql[1] = <<>>

\* Step 3: if (genResult.isAmbiguous || !genResult.sql)
needsClarification(g) == g.isAmbiguous \/ g.sql = <<>> \/ g.sql[1] = <<>>

\* Steps 2 and 3: genResult = await generate_sql(message, schema); an
\* ambiguous result, or one without sql, is answered with a clarification.
\* Otherwise generatedSql.match(/\bLIMIT\s+\d+/i) is evaluated, which throws
\* into the catch of POST when generatedSql is not a string, and Step 4 calls
\* execute_query(generatedSql).
GenerateSql ==
    /\ pc = "generate_sql"
    /\ invoked' = Append(invoked, "generate_sql")
    /\ \E g \in GenResults :
          /\ genResult' = <<g>>
          /\ IF needsClarification(g)
             THEN /\ pc' = "done"
                  /\ response' = <<Response(200, "clarification", <<>>, <<>>, <<>>, 0,
                                            <<"get_schema", "generate_sql">>)>>
                  /\ UNCHANGED <<generatedSql, xq>>
             ELSE IF ~g.sqlIsString
             THEN /\ pc' = "done"
                  /\ generatedSql' = g.sql[1]
                  /\ response' = <<InternalErrorResponse("generatedSql.match is not a function")>>
                  /\ UNCHANGED xq
             ELSE /\ pc' = "execute_query"
                  /\ generatedSql' = g.sql[1]
                  /\ xq' = [NoCall EXCEPT !.n = Len(execLog) + 1, !.sql = g.sql[1],
                                          !.at = "call"]
                  /\ UNCHANGED response
    /\ UNCHANGED <<envOk, usedRepair, execResult, repairResult, dbCalls, execLog, gvars, rvars, tvars, svars, kvars, uvars>>

\* a variant of FailedResponse: the statement reported is the generated one
FailedResponseGeneratedSql(repairedSql, error) ==
    Response(200, "failed", <<generatedSql>>, error, <<>>, 0,
             <<"get_schema", "generate_sql", "execute_query", "repair_sql",
               "execute_query">>)

\* If still error, return error response: { response, sql:
\* repairResult.repairedSql, error: execResult.error, assumptions, toolCalls }
FailedResponse(repairedSql, error) ==
    Response(200, "failed", <<repairedSql>>, error, <<>>, 0,
             <<"get_schema", "generate_sql", "execute_query", "repair_sql",
               "execute_query">>)

\* execute_query returns result to POST, which runs on to its next call or to
\* its response (log is execLog with the entry of this call)
ExecuteQueryReturns(result, log) ==
    /\ execResult' = <<result>>
    /\ execLog' = [log EXCEPT ![xq.n].result = <<result>>]
    /\ xq' = [xq EXCEPT !.at = "idle"]
    /\ IF xq.n = 1
       THEN /\ pc' = afterFirstExecute(result)
            /\ UNCHANGED <<usedRepair, generatedSql, response>>
       ELSE /\ usedRepair' = TRUE
            /\ IF afterSecondExecute(result) = "respond_failed"
               THEN /\ pc' = "done"
                    /\ response' = <<FailedResponse(repairResult[1].repairedSql,
                                                     result.error)>>
                    /\ UNCHANGED generatedSql
               ELSE /\ pc' = afterSecondExecute(result)
                    /\ generatedSql' = repairResult[1].repairedSql
                    /\ UNCHANGED response

\* execute_query(sql) up to its first await: validateSQL, and unless the
\* statement is rejected, getSupabaseClient() and supabase.rpc('exec_sql',
\* {query_text: sanitizedSql})
ExecuteQueryCall ==
    /\ pc = "execute_query"
    /\ xq.at = "call"
    /\ invoked' = Append(invoked, "execute_query")
    /\ LET validation == validateSQL(xq.sql, ExecConfig)
           log == Append(execLog, [sql |-> xq.sql, validation |-> validation,
                                   result |-> <<>>])
       IN  IF ~validation.isValid
           THEN /\ ExecuteQueryReturns(validationFailureResult(validation), log)
                /\ UNCHANGED dbCalls
           ELSE IF ~envOk
           THEN \* getSupabaseClient() throws outside the try: POST catches it
                /\ pc' = "done"
                /\ response' = <<InternalErrorResponse("Supabase URL and key must be configured")>>
                /\ execLog' = log
                /\ xq' = [xq EXCEPT !.at = "idle"]
                /\ UNCHANGED <<usedRepair, generatedSql, execResult, dbCalls>>
           ELSE /\ dbCalls' = Append(dbCalls,
                        [call |-> xq.n, via |-> "rpc",
                         text |-> sanitizedSqlOf(validation, xq.sql)])
                /\ xq' = [xq EXCEPT !.at = "rpc",
                                    !.sanitizedSql = sanitizedSqlOf(validation, xq.sql)]
                /\ execLog' = log
                /\ UNCHANGED <<pc, usedRepair, generatedSql, execResult, response>>
    /\ UNCHANGED <<envOk, genResult, repairResult, gvars, rvars, tvars, svars, kvars, uvars>>

\* the RPC answers with rows
RpcReturnsData ==
    /\ pc = "execute_query"
    /\ xq.at = "rpc"
    /\ \E rows \in DbRowSets : ExecuteQueryReturns(successResult(rows), execLog)
    /\ UNCHANGED <<envOk, genResult, repairResult, invoked, dbCalls, gvars, rvars, tvars, svars, kvars, uvars>>

\* a variant of RpcReturnsError: on an error the RPC is sent again
RpcReturnsErrorRetries ==
    /\ pc = "execute_query"
    /\ xq.at = "rpc"
    /\ dbCalls' = Append(dbCalls, [call |-> xq.n, via |-> "rpc", text |-> xq.sanitizedSql])
    /\ UNCHANGED <<pc, envOk, genResult, generatedSql, usedRepair, execResult,
                   repairResult, xq, response, invoked, execLog, gvars, rvars, tvars, svars, kvars, uvars>>

\* the RPC answers with an error: the same statement is sent once more, to
\* ${url}/rest/v1/rpc/exec_sql (url and key are set, getSupabaseClient passed)
RpcReturnsError ==
    /\ pc = "execute_query"
    /\ xq.at = "rpc"
    /\ \E message \in DbErrorMessages :
          xq' = [xq EXCEPT !.at = "rest", !.rpcError = <<message>>]
    /\ dbCalls' = Append(dbCalls, [call |-> xq.n, via |-> "rest", text |-> xq.sanitizedSql])
    /\ UNCHANGED <<pc, envOk, genResult, generatedSql, usedRepair, execResult,
                   repairResult, response, invoked, execLog, gvars, rvars, tvars, svars, kvars, uvars>>

\* the RPC call throws: catch (error) returns error.message || 'Unknown error
\* executing query'
RpcThrows ==
    /\ pc = "execute_query"
    /\ xq.at = "rpc"
    /\ \E message \in ThrownMessages :
          ExecuteQueryReturns(
              errorResult(messageOr(message, "Unknown error executing query")), execLog)
    /\ UNCHANGED <<envOk, genResult, repairResult, invoked, dbCalls, gvars, rvars, tvars, svars, kvars, uvars>>

\* the REST request answers ok with rows
RestReturnsData ==
    /\ pc = "execute_query"
    /\ xq.at = "rest"
    /\ \E rows \in DbRowSets : ExecuteQueryReturns(successResult(rows), execLog)
    /\ UNCHANGED <<envOk, genResult, repairResult, invoked, dbCalls, gvars, rvars, tvars, svars, kvars, uvars>>

\* the REST request answers not ok: the error of the RPC is returned
RestReturnsNotOk ==
    /\ pc = "execute_query"
    /\ xq.at = "rest"
    /\ ExecuteQueryReturns(
           errorResult(messageOr(xq.rpcError[1],
               "Query execution failed. Make sure the exec_sql function is created in your database.")),
           execLog)
    /\ UNCHANGED <<envOk, genResult, repairResult, invoked, dbCalls, gvars, rvars, tvars, svars, kvars, uvars>>

\* fetch or response.json() throws: the catch returns its message
RestThrows ==
    /\ pc = "execute_query"
    /\ xq.at = "rest"
    /\ \E message \in ThrownMessages :
          ExecuteQueryReturns(
              errorResult(messageOr(message, "Unknown error executing query")), execLog)
    /\ UNCHANGED <<envOk, genResult, repairResult, invoked, dbCalls, gvars, rvars, tvars, svars, kvars, uvars>>

\* Step 5: repairResult = await repair_sql(generatedSql, execResult.error, schema),
\* whose repairedSql is result.repairedSql || failedSql or failedSql; then
\* execute_query(repairResult.repairedSql)
RepairSql ==
    /\ pc = "repair_sql"
    /\ invoked' = Append(invoked, "repair_sql")
    /\ \E repairedSql \in HandlerSqls \cup {generatedSql} :
          /\ repairResult' = <<[repairedSql |-> repairedSql]>>
          /\ xq' = [NoCall EXCEPT !.n = Len(execLog) + 1, !.sql = repairedSql, !.at = "call"]
    /\ pc' = "execute_query"
    /\ UNCHANGED <<envOk, genResult, generatedSql, usedRepair, execResult, response,
                   dbCalls, execLog, gvars, rvars, tvars, svars, kvars, uvars>>

\* Steps 6 and 7: explain_results(execResult, message, finalSql, schema), which
\* always returns a text, and the response
ExplainResults ==
    /\ pc = "explain_results"
    /\ invoked' = Append(invoked, "explain_results")
    /\ response' = <<Response(200, "success", <<generatedSql>>, execResult[1].error,
                        <<execResult[1].rows>>, execResult[1].rowCount,
                        <<"get_schema", "generate_sql", "execute_query">>
                            \o (IF usedRepair THEN <<"repair_sql", "execute_query">> ELSE <<>>)
                            \o <<"explain_results">>)>>
    /\ pc' = "done"
    /\ UNCHANGED <<envOk, genResult, generatedSql, usedRepair, execResult, repairResult,
                   xq, dbCalls, execLog, gvars, rvars, tvars, svars, kvars, uvars>>

Next ==
    \/ ReceiveRequest
    \/ GetSchema
    \/ GenerateSql
    \/ ExecuteQueryCall
    \/ RpcReturnsData
    \/ RpcReturnsError
    \/ RpcThrows
    \/ RestReturnsData
    \/ RestReturnsNotOk
    \/ RestThrows
    \/ RepairSql
    \/ ExplainResults

Spec == Init /\ [][Next]_vars

(***************************************************************************)
(* repair_sql (src/lib/tools.ts) applied to a failed statement             *)
(***************************************************************************)
GuardOff ==
    /\ gpc = "off"
    /\ gSql = <<>>
    /\ gConfig = ExecConfig
    /\ gResult = NoResult
    /\ gAgain = NoResult

\* error.message of what anthropic.messages.create throws; "" stands for a
\* missing or empty message
CreateErrorMessages == {"Connection error.", ""}

\* the assumptions field of the JSON the service answers with: <<>> when it
\* is not an array, else <<the array>>
JsonAssumptions == {<<>>, <<<<>>>>, <<<<"Corrected column name from 'name' to 'full_name'">>>>}

\* what a call of repair_sql meets: no ANTHROPIC_API_KEY; messages.create
\* throws; a response without a text block; a text without {...}; a {...}
\* that JSON.parse rejects; a JSON object, with or without repairedSql
RepairOutcomes ==
    {[kind |-> k, message |-> "", repairedSql |-> <<>>, assumptions |-> <<>>] :
        k \in {"no_api_key", "no_text", "no_json", "bad_json"}}
    \cup {[kind |-> "create_throws", message |-> m, repairedSql |-> <<>>, assumptions |-> <<>>] :
            m \in CreateErrorMessages}
    \cup {[kind |-> "json", message |-> "", repairedSql |-> r, assumptions |-> a] :
            r \in {<<>>, <<<<>>>>} \cup {<<q>> : q \in HandlerSqls}, a \in JsonAssumptions}

NoteUnavailable == "SQL repair unavailable: AI service not configured"
NoteAttempted == "Attempted to repair SQL based on error message"
NoteFailed(message) ==
    "SQL repair failed: " \o (IF message = "" THEN "Unknown error" ELSE message)

\* repair_sql(failedSql, errorMessage, schemaContext) on each of its paths
repair_sql(failedSql, outcome) ==
    CASE outcome.kind = "no_api_key" ->
           [repairedSql |-> failedSql, assumptions |-> <<NoteUnavailable>>]
      [] outcome.kind = "create_throws" ->
           [repairedSql |-> failedSql, assumptions |-> <<NoteFailed(outcome.message)>>]
      [] outcome.kind = "json" ->
           [repairedSql |-> IF outcome.repairedSql # <<>> /\ outcome.repairedSql[1] # <<>>
                            THEN outcome.repairedSql[1]
                            ELSE failedSql,
            assumptions |-> IF outcome.assumptions # <<>> THEN outcome.assumptions[1] ELSE <<>>]
      [] OTHER ->
           [repairedSql |-> failedSql, assumptions |-> <<NoteAttempted>>]

RepairInit ==
    /\ rpc = "input"
    /\ rFailedSql \in HandlerSqls
    /\ rOutcome \in {<<o>> : o \in RepairOutcomes}
    /\ rResult = <<>>
    /\ GuardOff
    /\ HandlerOff
    /\ ToolUseOff
    /\ FrontOff

\* await repair_sql(failedSql, errorMessage, schema)
Repair ==
    /\ rpc = "input"
    /\ rResult' = <<repair_sql(rFailedSql, rOutcome[1])>>
    /\ rpc' = "repaired"
    /\ UNCHANGED <<rFailedSql, rOutcome, gvars, hvars, tvars, svars, kvars, uvars>>

RepairNext == Repair

SpecRepair == RepairInit /\ [][RepairNext]_vars

(***************************************************************************)
(* The tool-use chat handler (POST with executeTool, src/app/page.tsx):    *)
(* it calls the generation service and, while the answer's stop_reason is  *)
(* 'tool_use', runs executeTool for each tool_use block of the answer and  *)
(* calls the service again with the results.                               *)
(***************************************************************************)
\* the answers with stop_reason 'tool_use' the service gives in one request
MaxTurns == 2
\* the tool_use blocks of one answer
MaxBlocks == 2

\* input.sql of an execute_query block
ToolSqls ==
    { Vocabulary[1] \o Vocabulary[2],
      Vocabulary[1] \o Vocabulary[7],
      Vocabulary[10] \o Vocabulary[2] }

RECURSIVE BlockListsOf(_)
BlockListsOf(n) ==
    IF n = 0 THEN {<<>>}
    ELSE LET shorter == BlockListsOf(n - 1)
         IN  shorter \cup {Append(b, name) : b \in shorter, name \in ToolNames}

\* response.content.filter(block => block.type === 'tool_use') of an answer
\* with stop_reason 'tool_use': the names of its blocks, in order
BlockLists == BlockListsOf(MaxBlocks) \ {<<>>}

\* case 'execute_query' of executeTool: validateSQL(input.sql), and for an
\* accepted statement execute_query(validation.sanitizedSql || input.sql),
\* which validates its argument itself, takes the Supabase client and asks
\* the database (db is what the database then answers)
executeQueryTool(sql, env, db) ==
    LET validation == validateSQL(sql, ExecConfig)
    IN  IF ~validation.isValid
        THEN [tool |-> "execute_query", outcome |-> "rejected", is_error |-> FALSE]
        ELSE LET inner == validateSQL(sanitizedSqlOf(validation, sql), ExecConfig)
             IN  IF ~inner.isValid
                 THEN [tool |-> "execute_query", outcome |-> "rejected by execute_query",
                       is_error |-> FALSE]
                 ELSE IF ~env
                 THEN [tool |-> "execute_query", outcome |-> "thrown", is_error |-> TRUE]
                 ELSE [tool |-> "execute_query", outcome |-> db, is_error |-> FALSE]

\* executeTool(block.name, block.input) inside the try of the loop: what is
\* put into toolResultsArray for the block
executeTool(name, sql, env, db) ==
    CASE name = "get_schema" ->
           IF env THEN [tool |-> name, outcome |-> "schema", is_error |-> FALSE]
                  ELSE [tool |-> name, outcome |-> "thrown", is_error |-> TRUE]
      [] name = "execute_query" -> executeQueryTool(sql, env, db)
      [] name = "repair_sql" ->
           \* const schema = await get_schema(); return await repair_sql(...)
           IF env THEN [tool |-> name, outcome |-> "repair result", is_error |-> FALSE]
                  ELSE [tool |-> name, outcome |-> "thrown", is_error |-> TRUE]
      [] OTHER -> [tool |-> name, outcome |-> "thrown", is_error |-> TRUE]

ToolResponse(status, toolCalls) == [status |-> status, toolCalls |-> toolCalls]

ToolUseInit ==
    /\ tpc = "request"
    /\ tTurns = 0
    /\ tBlocks = <<>>
    /\ tResults = <<>>
    /\ tRan = [name \in ToolNames |-> 0]
    /\ toolUseCount = 0
    /\ tResponse = <<>>
    /\ pc = "off"
    /\ envOk \in BOOLEAN
    /\ genResult = <<>>
    /\ generatedSql = <<>>
    /\ usedRepair = FALSE
    /\ execResult = <<>>
    /\ repairResult = <<>>
    /\ xq = NoCall
    /\ response = <<>>
    /\ invoked = <<>>
    /\ dbCalls = <<>>
    /\ execLog = <<>>
    /\ GuardOff
    /\ RepairOff
    /\ FrontOff

\* const body = await request.json(); if (!message) return 400; else the
\* first anthropic.messages.create is sent
ToolUseReceiveRequest ==
    /\ tpc = "request"
    /\ \E body \in {"message", "no message", "not json"} :
          CASE body = "message" ->
                 /\ tpc' = "model"
                 /\ UNCHANGED tResponse
            [] body = "no message" ->
                 /\ tpc' = "done"
                 /\ tResponse' = <<ToolResponse(400, <<>>)>>
            [] body = "not json" ->
                 /\ tpc' = "done"
                 /\ tResponse' = <<ToolResponse(500, <<>>)>>
    /\ UNCHANGED <<tTurns, tBlocks, tResults, tRan, toolUseCount, gvars, hvars, rvars, svars, kvars, uvars>>

\* the service answers with stop_reason 'tool_use': while (response.stop_reason
\* === 'tool_use') { toolUseBlocks = ...; toolUseCount += toolUseBlocks.length
ModelRequestsTools ==
    /\ tpc = "model"
    /\ tTurns < MaxTurns
    /\ \E blocks \in BlockLists :
          /\ tBlocks' = blocks
          /\ toolUseCount' = toolUseCount + Len(blocks)
    /\ tTurns' = tTurns + 1
    /\ tResults' = <<>>
    /\ tpc' = "tools"
    /\ UNCHANGED <<tRan, tResponse, gvars, hvars, rvars, svars, kvars, uvars>>

\* the service answers with another stop_reason: the loop is left and the
\* response { response: finalResponse, toolCalls: toolUseCount } is sent
ModelEndsTurn ==
    /\ tpc = "model"
    /\ tResponse' = <<ToolResponse(200, <<toolUseCount>>)>>
    /\ tpc' = "done"
    /\ UNCHANGED <<tTurns, tBlocks, tResults, tRan, toolUseCount, gvars, hvars, rvars, svars, kvars, uvars>>

\* anthropic.messages.create throws: the catch of POST answers 500
ModelCallThrows ==
    /\ tpc = "model"
    /\ tResponse' = <<ToolResponse(500, <<>>)>>
    /\ tpc' = "done"
    /\ UNCHANGED <<tTurns, tBlocks, tResults, tRan, toolUseCount, gvars, hvars, rvars, svars, kvars, uvars>>

\* toolUseBlocks.map(async (block) => ... executeTool(block.name, block.input)):
\* the next block of the answer is run and its tool_result is built. The
\* blocks are started in order; what one block runs does not depend on the
\* others.
RunTool ==
    /\ tpc = "tools"
    /\ tBlocks # <<>>
    /\ LET name == Head(tBlocks)
       IN  /\ tRan' = [tRan EXCEPT ![name] = @ + 1]
           /\ \E sql \in ToolSqls, db \in {"rows", "error"} :
                  tResults' = Append(tResults, executeTool(name, sql, envOk, db))
    /\ tBlocks' = Tail(tBlocks)
    /\ UNCHANGED <<tpc, tTurns, toolUseCount, tResponse, gvars, hvars, rvars, svars, kvars, uvars>>

\* await Promise.all(...) is through: the results are pushed to messages and
\* anthropic.messages.create is called again
ContinueConversation ==
    /\ tpc = "tools"
    /\ tBlocks = <<>>
    /\ tpc' = "model"
    /\ UNCHANGED <<tTurns, tBlocks, tResults, tRan, toolUseCount, tResponse,
                   gvars, hvars, rvars, svars, kvars, uvars>>

ToolUseNext ==
    \/ ToolUseReceiveRequest
    \/ ModelRequestsTools
    \/ ModelEndsTurn
    \/ ModelCallThrows
    \/ RunTool
    \/ ContinueConversation

SpecToolUse == ToolUseInit /\ [][ToolUseNext]_vars

(***************************************************************************)
(* What the properties of the safety gate are stated with: the words of a  *)
(* text (its maximal runs of word characters), the gaps between them, its  *)
(* statements and its LIMIT clauses, read off the text itself              *)
(***************************************************************************)
RECURSIVE WordSpans(_, _)
WordSpans(s, i) ==
    IF i > Len(s) THEN <<>>
    ELSE IF s[i] \in WordChars
         THEN LET e == runEnd(s, i, WordChars)
              IN  <<[a |-> i, b |-> e]>> \o WordSpans(s, e + 1)
         ELSE WordSpans(s, i + 1)

WordOf(s, span) == SubSeq(s, span.a, span.b)

\* the text between word k-1 and word k
GapBefore(s, spans, k) == SubSeq(s, spans[k-1].b + 1, spans[k].a - 1)

AllWhiteSpace(g) == Len(g) > 0 /\ \A i \in 1..Len(g) : g[i] \in WhiteSpace

UpperWordsOf(s) ==
    LET spans == WordSpans(s, 1)
    IN  {toUpperCase(WordOf(s, spans[k])) : k \in 1..Len(spans)}

ForbiddenWords == {forbiddenKeywords[k].chars : k \in 1..Len(forbiddenKeywords)}

\* a forbidden keyword is a word of the text
HasStandaloneKeyword(s) == ForbiddenWords \cap UpperWordsOf(s) # {}

\* a forbidden keyword occurs in the text, standalone or inside a longer word
HasKeywordSubstring(s) ==
    \E w \in ForbiddenWords : \E i \in 1..Len(s) : matchesAt(s, i, w)

\* the positions of the characters that make a fragment non-empty
SolidPositions(s) == {i \in 1..Len(s) : s[i] \notin WhiteSpace \cup {";"}}

\* a ';' with something other than whitespace and ';' on both sides
MoreThanOneFragment(s) ==
    LET solid == SolidPositions(s)
    IN  \E j \in 1..Len(s) :
            /\ s[j] = ";"
            /\ \E i \in solid : i < j
            /\ \E k \in solid : k > j

\* the text starts, after its leading whitespace, with SELECT in any case
StartsWithSelectWord(s) ==
    LET solid == {i \in 1..Len(s) : s[i] \notin WhiteSpace}
    IN  /\ solid # {}
        /\ matchesAt(s, CHOOSE i \in solid : \A j \in solid : i <= j, KwSELECT)

EndsWithFromOrJoin(w) ==
    /\ Len(w) >= 4
    /\ toUpperCase(SubSeq(w, Len(w) - 3, Len(w))) \in {KwFROM, KwJOIN}

\* the identifiers that follow FROM or JOIN and whitespace, lower-cased: an
\* identifier taken as a table is not taken as the FROM or JOIN of the next
RECURSIVE CapturedFrom(_, _, _)
CapturedFrom(s, spans, k) ==
    IF k >= Len(spans) THEN {}
    ELSE IF EndsWithFromOrJoin(WordOf(s, spans[k]))
            /\ AllWhiteSpace(GapBefore(s, spans, k + 1))
         THEN {toLowerCase(WordOf(s, spans[k + 1]))} \cup CapturedFrom(s, spans, k + 2)
         ELSE CapturedFrom(s, spans, k + 1)

CapturedTables(s) == CapturedFrom(s, WordSpans(s, 1), 1)

\* the tables a statement reads: the identifier after the word FROM or JOIN,
\* and the identifiers that follow it in a comma-separated list
RECURSIVE ReadFrom(_, _, _, _)
ReadFrom(s, spans, k, prevIsTable) ==
    IF k > Len(spans) THEN {}
    ELSE LET isTable ==
                 \/ /\ toUpperCase(WordOf(s, spans[k-1])) \in {KwFROM, KwJOIN}
                    /\ AllWhiteSpace(GapBefore(s, spans, k))
                 \/ /\ prevIsTable
                    /\ trim(GapBefore(s, spans, k)) = <<",">>
         IN  (IF isTable THEN {toLowerCase(WordOf(s, spans[k]))} ELSE {})
                 \cup ReadFrom(s, spans, k + 1, isTable)

ReadTables(s) == ReadFrom(s, WordSpans(s, 1), 2, FALSE)

AllowedLower(config) ==
    {toLowerCase(config.allowedTables[k]) : k \in 1..Len(config.allowedTables)}

\* the values of all the clauses LIMIT <integer> of a text
LimitValues(s) ==
    {parseInt(SubSeq(s, runEnd(s, i + 5, WhiteSpace) + 1,
                        runEnd(s, runEnd(s, i + 5, WhiteSpace) + 1, DigitSet))) :
        i \in {p \in 1..Len(s) :
                 /\ matchesAt(s, p, KwLIMIT)
                 /\ runEnd(s, p + 5, WhiteSpace) >= p + 5
                 /\ runEnd(s, runEnd(s, p + 5, WhiteSpace) + 1, DigitSet)
                        > runEnd(s, p + 5, WhiteSpace)}}

IsForbiddenKeywordError(e) ==
    \E k \in 1..Len(forbiddenKeywords) : e = ForbiddenKeywordError(forbiddenKeywords[k].name)

Rejected(r) == ~r.isValid /\ Len(r.error) = 1
RejectedWith(r, e) == Rejected(r) /\ r.error[1] = e

Validated == gpc \in {"validated", "revalidated"}

(***************************************************************************)
(* Properties of validateSQL (checked under SpecGuard)                     *)
(***************************************************************************)

\* C5: capping. In the output of an accepted text every clause LIMIT v of the
\* text with v > maxLimit has become LIMIT maxLimit (the value v occurs in no
\* LIMIT clause of the output), and every clause with v <= maxLimit is kept,
\* also when the text has several LIMIT clauses.
C5_EveryLimitCapped ==
    (Validated /\ gResult.isValid) =>
        LET out == LimitValues(gResult.sanitizedSql[1])
        IN  \A v \in LimitValues(normalizeSql(gSql)) :
                IF v > gConfig.maxLimit
                THEN gConfig.maxLimit \in out /\ v \notin out
                ELSE v \in out

\* C6: LIMIT injection is idempotent. An accepted text without a clause
\* LIMIT <integer> yields the normalized text with ' LIMIT <defaultLimit>'
\* appended once, and validating that output again accepts it and returns the
\* same statement (compared as normalized: only the empty text, whose output
\* ' LIMIT <n>' starts with a blank, comes back trimmed), with no second
\* LIMIT appended.
C6_LimitInjectionIdempotent ==
    LimitValues(gSql) = {} =>
        /\ (Validated /\ gResult.isValid) =>
               gResult.sanitizedSql =
                   <<normalizeSql(gSql) \o <<" ">> \o KwLIMIT \o <<" ">>
                         \o numberToString(gConfig.defaultLimit)>>
        /\ gpc = "revalidated" =>
               /\ gAgain.isValid
               /\ gAgain.sanitizedSql = <<normalizeSql(gResult.sanitizedSql[1])>>

\* C7: single-statement rule. The multiple-statements error is returned
\* exactly when a ';' separates two non-empty fragments, whatever the policy
\* and whatever keywords the text contains (the check runs first).
C7_SingleStatementRule ==
    Validated =>
        (RejectedWith(gResult, MultipleStatementsError) <=> MoreThanOneFragment(gSql))

\* C7 witness: a stacked statement holding a forbidden keyword, validated
\* read-only, got the multiple-statements error.
C7_Witness ==
    /\ gpc = "validated"
    /\ gConfig.readOnly
    /\ MoreThanOneFragment(gSql)
    /\ HasStandaloneKeyword(gSql)
    /\ RejectedWith(gResult, MultipleStatementsError)

\* C8: keyword word-boundary rule. Read-only, a single statement gets a
\* forbidden-keyword error if and only if one of the nine keywords is a word
\* of it in any case; a keyword inside a longer word does not reject.
C8_KeywordWordBoundary ==
    (Validated /\ gConfig.readOnly /\ ~MoreThanOneFragment(gSql)) =>
        ((Rejected(gResult) /\ IsForbiddenKeywordError(gResult.error[1]))
            <=> HasStandaloneKeyword(gSql))

\* C8 witness: a single read-only statement that holds a keyword only inside a
\* longer word was accepted.
C8_Witness ==
    /\ gpc = "validated"
    /\ gConfig.readOnly
    /\ HasKeywordSubstring(gSql)
    /\ ~HasStandaloneKeyword(gSql)
    /\ gResult.isValid

\* C9: allow-list rule. With a non-empty allowedTables every statement that
\* reads from a table outside the list (case-insensitively) is rejected, and a
\* table error is returned only then; with an empty list no table is rejected.
C9_AllowListRejectsEveryOutsider ==
    Validated =>
        /\ (Len(gConfig.allowedTables) > 0
              /\ ~(ReadTables(gSql) \subseteq AllowedLower(gConfig)))
               => ~gResult.isValid
        /\ (Rejected(gResult) /\ gResult.error[1].table # <<>>)
               => /\ Len(gConfig.allowedTables) > 0
                  /\ gResult.error[1].table \in ReadTables(gSql) \ AllowedLower(gConfig)

\* the error the checks of validateSQL give a text, in their order: a set of
\* messages (one per keyword, or per table taken after FROM or JOIN that is
\* not allowed), empty when no check fails
ExpectedErrors(s, config) ==
    IF MoreThanOneFragment(s) THEN {MultipleStatementsError}
    ELSE IF config.readOnly /\ HasStandaloneKeyword(s)
    THEN {ForbiddenKeywordError(forbiddenKeywords[k].name) :
              k \in {h \in 1..Len(forbiddenKeywords) :
                        forbiddenKeywords[h].chars \in UpperWordsOf(s)}}
    ELSE IF config.readOnly /\ ~StartsWithSelectWord(s) THEN {OnlySelectError}
    ELSE IF Len(config.allowedTables) > 0
    THEN {TableNotAllowedError(t, config.allowedTables) :
              t \in CapturedTables(s) \ AllowedLower(config)}
    ELSE {}

\* C10: rejection paths. validateSQL rejects exactly when, in this order, the
\* text has more than one fragment, or (read-only) holds a forbidden keyword
\* as a word, or (read-only) does not start with SELECT, or (allow-list) an
\* identifier after FROM or JOIN is not allowed; the error is that of the
\* first failing check. Every other text is accepted with a sanitizedSql; not
\* read-only, the empty text yields ' LIMIT <defaultLimit>'.
C10_RejectionPaths ==
    Validated =>
        LET expected == ExpectedErrors(gSql, gConfig)
        IN  /\ gResult.isValid <=> expected = {}
            /\ ~gResult.isValid =>
                   /\ Len(gResult.error) = 1
                   /\ gResult.error[1] \in expected
                   /\ gResult.sanitizedSql = <<>>
            /\ gResult.isValid =>
                   /\ Len(gResult.sanitizedSql) = 1
                   /\ gResult.error = <<>>
            /\ (~gConfig.readOnly /\ SolidPositions(gSql) = {} /\ ";" \notin Range(gSql)) =>
                   gResult = Valid(<<" ">> \o KwLIMIT \o <<" ">>
                                       \o numberToString(gConfig.defaultLimit))

\* C10 witness: a read-only SELECT without keyword passed the first three
\* checks and was rejected for a table outside the allow-list.
C10_Witness ==
    /\ gpc = "validated"
    /\ gConfig.readOnly
    /\ StartsWithSelectWord(gSql)
    /\ Rejected(gResult)
    /\ gResult.error[1].table # <<>>

(***************************************************************************)
(* Properties of execute_query and of the sequential chat handler          *)
(* (checked under Spec)                                                    *)
(***************************************************************************)
Count(seq, x) == Cardinality({i \in 1..Len(seq) : seq[i] = x})

\* the requests the database got from the n-th execute_query call
DbCallsOf(n) == {k \in 1..Len(dbCalls) : dbCalls[k].call = n}

\* the n-th execute_query call has returned
Returned(n) == n <= Len(execLog) /\ execLog[n].result # <<>>

\* C1: every SQL text execute_query passes to the database, by the RPC or by
\* the REST fallback, is the sanitizedSql validateSQL gives for the argument
\* of that call under {readOnly, defaultLimit 50, maxLimit 500}, which it
\* accepts; a call whose argument validateSQL rejects sends nothing and
\* returns {rows: [], rowCount: 0, error: the validation error}.
C1_OnlySanitizedSqlReachesDatabase ==
    /\ \A k \in 1..Len(dbCalls) :
          /\ dbCalls[k].call \in 1..Len(execLog)
          /\ LET v == validateSQL(execLog[dbCalls[k].call].sql, ExecConfig)
             IN  v.isValid /\ <<dbCalls[k].text>> = v.sanitizedSql
    /\ \A n \in 1..Len(execLog) :
          LET v == validateSQL(execLog[n].sql, ExecConfig)
          IN  ~v.isValid =>
                 /\ DbCallsOf(n) = {}
                 /\ execLog[n].result = <<[rows |-> <<>>, rowCount |-> 0, error |-> v.error]>>

\* C1 witness: a request whose first statement went to the database by the RPC
\* and by the REST fallback, and whose second statement was rejected by
\* validateSQL.
C1_Witness ==
    /\ pc = "done"
    /\ Len(execLog) = 2
    /\ execLog[1].validation.isValid
    /\ ~execLog[2].validation.isValid
    /\ \E k \in DbCallsOf(1) : dbCalls[k].via = "rest"

\* C2: in a request repair_sql is called at most once and execute_query at
\* most twice, whatever the four tools answer; once the second execute_query
\* has returned, the handler only explains or responds.
C2_RepairAtMostOnce ==
    /\ Count(invoked, "repair_sql") <= 1
    /\ Count(invoked, "execute_query") <= 2
    /\ Len(execLog) <= 2
    /\ Returned(2) => (pc \in {"explain_results", "done"} /\ xq.at = "idle")

\* C2 witness: a request ended after its second execute_query returned an
\* error; repair_sql ran once.
C2_Witness ==
    /\ pc = "done"
    /\ Count(invoked, "repair_sql") = 1
    /\ Count(invoked, "execute_query") = 2
    /\ Returned(2)
    /\ hasError(execLog[2].result[1])

\* C3: when validateSQL rejects the generated statement, repair_sql is never
\* called, and the request ends in the Failed outcome with the validation
\* error.
C3_ValidationFailureNotRepaired ==
    (Len(execLog) >= 1 /\ ~execLog[1].validation.isValid) =>
        /\ Count(invoked, "repair_sql") = 0
        /\ pc = "done" =>
              /\ response[1].kind = "failed"
              /\ response[1].error = execLog[1].validation.error

\* C4: the statement repair_sql proposes is the argument of the second
\* execute_query, which validates it first: rejected, it is never sent to the
\* database and the request ends in Failed with the validation error;
\* accepted, the text sent to the database is its sanitizedSql.
C4_RepairedSqlValidatedBeforeExecution ==
    repairResult # <<>> =>
        LET repairedSql == repairResult[1].repairedSql
            v == validateSQL(repairedSql, ExecConfig)
        IN  /\ Len(execLog) >= 2 => execLog[2].sql = repairedSql
            /\ \A k \in DbCallsOf(2) : v.isValid /\ dbCalls[k].text = v.sanitizedSql[1]
            /\ (Len(execLog) >= 2 /\ ~v.isValid) =>
                   /\ DbCallsOf(2) = {}
                   /\ pc = "done"
                   /\ response[1].kind = "failed"
                   /\ response[1].error = v.error
                   /\ Count(invoked, "explain_results") = 0

\* C4 witness: a repaired statement other than the generated one was accepted
\* and sent to the database in its sanitized form.
C4_Witness ==
    /\ repairResult # <<>>
    /\ repairResult[1].repairedSql # generatedSql
    /\ \E k \in DbCallsOf(2) :
          /\ dbCalls[k].text # repairResult[1].repairedSql
          /\ dbCalls[k].text = validateSQL(repairResult[1].repairedSql, ExecConfig).sanitizedSql[1]

\* C11: when the first execute_query returns an error and the execute_query
\* after the repair returns an error too, repair_sql has been called exactly
\* once and the handler has ended, without a further call, in the Failed
\* outcome: its response carries the error of the second execution and the
\* repaired SQL.
C11_RepairBoundAndTermination ==
    (Returned(1) /\ hasError(execLog[1].result[1])
        /\ Returned(2) /\ hasError(execLog[2].result[1])) =>
        /\ Count(invoked, "repair_sql") = 1
        /\ Count(invoked, "execute_query") = 2
        /\ Count(invoked, "explain_results") = 0
        /\ pc = "done"
        /\ xq.at = "idle"
        /\ ~ENABLED Next
        /\ response # <<>>
        /\ response[1].kind = "failed"
        /\ response[1].error = execLog[2].result[1].error
        /\ response[1].sql = <<repairResult[1].repairedSql>>
        /\ response[1].sql = <<execLog[2].sql>>

\* C11 witness: both executions reached the database and failed there with
\* different errors, the repaired statement differing from the generated one.
C11_Witness ==
    /\ Returned(1) /\ Returned(2)
    /\ DbCallsOf(1) # {} /\ DbCallsOf(2) # {}
    /\ hasError(execLog[1].result[1]) /\ hasError(execLog[2].result[1])
    /\ execLog[1].result[1].error # execLog[2].result[1].error
    /\ execLog[1].sql # execLog[2].sql
    /\ pc = "done"

\* the n-th execute_query call could not reach the database: its RPC came
\* back with an error and the REST request that followed it threw
Unreachable(n) ==
    /\ Returned(n)
    /\ \E k \in DbCallsOf(n) : dbCalls[k].via = "rest"
    /\ execLog[n].result[1].error \in
           {<<messageOr(m, "Unknown error executing query")>> : m \in ThrownMessages}

\* C12: when the database cannot be reached during execute_query (the RPC and
\* the REST fallback both fail at the transport level), the handler calls
\* neither repair_sql nor a second execute_query, and answers with a
\* service-unavailable style error.
C12_InfrastructureFailureNotRepaired ==
    Unreachable(1) =>
        /\ Count(invoked, "repair_sql") = 0
        /\ Len(execLog) = 1
        /\ pc = "done" => (response[1].kind = "error" /\ response[1].status = 500)

\* the database reported an error to the RPC of the n-th execute_query call
\* (the statement was then sent to the REST fallback)
DatabaseReportedError(n) == \E k \in DbCallsOf(n) : dbCalls[k].via = "rest"

\* C13: execute_query never throws for an error the database reports: when
\* the database reports an error for a validated statement, the call returns
\* to the handler, and unless the fallback succeeds what it returns is
\* {rows: [], rowCount: 0, error: <message>} with a message that is not
\* empty: the database's, the fixed text that stands in for an empty one, or
\* that of an exception caught during the fallback.
C13_QueryErrorIsReturned ==
    \A n \in 1..Len(execLog) :
        DatabaseReportedError(n) =>
            /\ execLog[n].validation.isValid
            /\ pc = "done" => Returned(n)
            /\ (Returned(n) /\ execLog[n].result[1].error # <<>>) =>
                   LET r == execLog[n].result[1]
                   IN  /\ r.rows = <<>>
                       /\ r.rowCount = 0
                       /\ Len(r.error) = 1
                       /\ r.error[1].text # ""
                       /\ xq.n = n =>
                              r.error[1].text \in
                                  {xq.rpcError[1],
                                   "Query execution failed. Make sure the exec_sql function is created in your database.",
                                   "Unknown error executing query"} \cup ThrownMessages
            /\ (Returned(n) /\ execLog[n].result[1].error = <<>>) =>
                   execLog[n].result[1].rows \in DbRowSets

\* C13 witness: the database reported an error without a message, the
\* fallback answered not ok, and the call returned with the fixed text.
C13_Witness ==
    /\ Returned(1)
    /\ DatabaseReportedError(1)
    /\ xq.n = 1
    /\ xq.rpcError = <<"">>
    /\ execLog[1].result[1].error =
           <<Msg("Query execution failed. Make sure the exec_sql function is created in your database.")>>

\* error is present in a result of execute_query (it is set, and every
\* message execute_query sets is a non-empty text)
ErrorPresent(r) == r.error # <<>>

\* the results execute_query has returned in this request
ReturnedResults == {execLog[n].result[1] : n \in {m \in 1..Len(execLog) : Returned(m)}}

\* C14: for every result execute_query returns, on any path: if error is
\* present, rows is empty and rowCount = 0; if error is absent, rowCount
\* equals rows.length.
C14_ResultInvariant ==
    \A r \in ReturnedResults :
        /\ ErrorPresent(r) => (r.rows = <<>> /\ r.rowCount = 0)
        /\ ~ErrorPresent(r) => r.rowCount = Len(r.rows)

\* C14 witness: one request got a result with an error and a result with
\* rows.
C14_Witness ==
    /\ \E r \in ReturnedResults : ErrorPresent(r)
    /\ \E r \in ReturnedResults : ~ErrorPresent(r) /\ r.rowCount = MaxRows

\* C15 as stated: error is present if and only if rows is empty and
\* rowCount = 0.
C15_ErrorIffEmpty ==
    \A r \in ReturnedResults :
        ErrorPresent(r) <=> (r.rows = <<>> /\ r.rowCount = 0)

\* C15, amended: a result with rows (or a rowCount other than 0) has no
\* error, and a result without error is returned only for a statement
\* validateSQL accepted and the database was asked; a result without error
\* may have no rows at all.
C15_ErrorExcludesRows ==
    \A n \in 1..Len(execLog) :
        Returned(n) =>
            LET r == execLog[n].result[1]
            IN  /\ (r.rows # <<>> \/ r.rowCount # 0) => ~ErrorPresent(r)
                /\ ~ErrorPresent(r) =>
                       (execLog[n].validation.isValid /\ DbCallsOf(n) # {})
                /\ ~execLog[n].validation.isValid => ErrorPresent(r)

\* C15 witness: the database answered a statement with no rows: the result
\* has rows empty and rowCount 0, and no error.
C15_Witness ==
    \E r \in ReturnedResults : ~ErrorPresent(r) /\ r.rows = <<>> /\ r.rowCount = 0

(***************************************************************************)
(* The shape of the result of validateSQL (checked under SpecGuard)        *)
(***************************************************************************)
\* one of the two shapes of SQLValidationResult
RejectionShape(r) == ~r.isValid /\ Len(r.error) = 1 /\ r.sanitizedSql = <<>>
AcceptanceShape(r) == r.isValid /\ Len(r.sanitizedSql) = 1 /\ r.error = <<>>

\* C16: for every text and every policy the result of validateSQL has
\* exactly one of two shapes: isValid=false with error present and
\* sanitizedSql absent, or isValid=true with sanitizedSql present and error
\* absent; error and sanitizedSql are never both set and never both absent.
C16_ValidationResultShape ==
    /\ Validated =>
           /\ RejectionShape(gResult) \/ AcceptanceShape(gResult)
           /\ (gResult.error = <<>>) # (gResult.sanitizedSql = <<>>)
           /\ gResult.isValid <=> validateSQL(gSql, gConfig).error = <<>>
    /\ gpc = "revalidated" =>
           /\ RejectionShape(gAgain) \/ AcceptanceShape(gAgain)
           /\ (gAgain.error = <<>>) # (gAgain.sanitizedSql = <<>>)

\* C16 witness: both shapes in one run: a text was accepted and its output,
\* validated again, was rejected.
C16_Witness ==
    /\ gpc = "revalidated"
    /\ AcceptanceShape(gResult)
    /\ RejectionShape(gAgain)

(***************************************************************************)
(* The ambiguity gate of the sequential chat handler (checked under Spec)  *)
(***************************************************************************)
\* C18: when generate_sql returns isAmbiguous=true or no sql, the request
\* ends with a clarification response and execute_query (and with it
\* validateSQL) and repair_sql are never called; validation and execution
\* only receive an sql that generate_sql produced with isAmbiguous=false.
C18_AmbiguityGate ==
    /\ (genResult # <<>> /\ (genResult[1].isAmbiguous \/ genResult[1].sql = <<>>)) =>
           /\ pc = "done"
           /\ response # <<>>
           /\ response[1].kind = "clarification"
           /\ response[1].sql = <<>>
           /\ response[1].toolCalls = <<"get_schema", "generate_sql">>
           /\ invoked = <<"get_schema", "generate_sql">>
           /\ execLog = <<>>
           /\ dbCalls = <<>>
           /\ xq = NoCall
    /\ (execLog # <<>> \/ xq # NoCall \/ Count(invoked, "repair_sql") > 0) =>
           /\ genResult # <<>>
           /\ ~genResult[1].isAmbiguous
           /\ genResult[1].sql # <<>>
    /\ execLog # <<>> => execLog[1].sql = genResult[1].sql[1]

\* C18 witness: generate_sql returned a statement together with
\* isAmbiguous=true, and the request ended with the clarification.
C18_Witness ==
    /\ genResult # <<>>
    /\ genResult[1].isAmbiguous
    /\ genResult[1].sql # <<>>
    /\ pc = "done"
    /\ response[1].kind = "clarification"

(***************************************************************************)
(* get_schema as the sequential chat handler sees it (checked under Spec)  *)
(***************************************************************************)
\* C20: get_schema never fails: whatever the environment (Supabase URL or
\* key missing included), the call returns a SchemaInfo and does not throw,
\* so the handler that called it goes on to generate_sql.
C20_GetSchemaNeverFails ==
    Count(invoked, "get_schema") > 0 =>
        /\ pc = "generate_sql" \/ Count(invoked, "generate_sql") = 1
        /\ response # <<>> => response[1].toolCalls # <<"get_schema">>

(***************************************************************************)
(* The fallback of repair_sql (checked under SpecRepair)                   *)
(***************************************************************************)
\* the call obtained no fix: every path but a JSON object with a repairedSql
NoFixObtained == rOutcome[1].kind # "json" \/ rOutcome[1].repairedSql \in {<<>>, <<<<>>>>}

\* the notes of repair_sql that say a repair was not obtained
NoCorrectionNotes ==
    {NoteUnavailable, NoteAttempted} \cup {NoteFailed(m) : m \in CreateErrorMessages}

\* C17: repair_sql always returns a result; on every path on which no fix is
\* obtained (API key missing, generation call fails, no parseable JSON, JSON
\* without repairedSql) the returned repairedSql equals failedSql and the
\* returned assumptions hold at least one note saying that no correction
\* could be determined.
C17_RepairFallback ==
    (rpc = "repaired" /\ NoFixObtained) =>
        /\ rResult # <<>>
        /\ rResult[1].repairedSql = rFailedSql
        /\ \E i \in 1..Len(rResult[1].assumptions) :
               rResult[1].assumptions[i] \in NoCorrectionNotes

(***************************************************************************)
(* The tool-use chat handler (checked under SpecToolUse)                   *)
(***************************************************************************)
\* C19: in a request of the tool-use chat handler executeTool runs repair_sql
\* at most once and execute_query at most twice, whatever tools the
\* service's answers ask for.
C19_ToolUseRepairBound ==
    /\ tRan["repair_sql"] <= 1
    /\ tRan["execute_query"] <= 2

(***************************************************************************)
(* The output of validateSQL as a statement (checked under SpecGuard)      *)
(***************************************************************************)
\* C27: every sanitizedSql validateSQL returns satisfies the single-statement
\* rule itself: split on ';' it has at most one non-empty fragment, also when
\* the accepted text ends with a terminating semicolon.
C27_SanitizedIsSingleStatement ==
    (Validated /\ gResult.isValid) =>
        ~MoreThanOneFragment(gResult.sanitizedSql[1])

(***************************************************************************)
(* The database round trips of execute_query (checked under Spec)          *)
(***************************************************************************)
RpcCallsOf(n) == {k \in DbCallsOf(n) : dbCalls[k].via = "rpc"}
RestCallsOf(n) == {k \in DbCallsOf(n) : dbCalls[k].via = "rest"}

C23_KnownTablesOnly ==
    /\ \A k \in 1..Len(dbCalls) : ReadTables(dbCalls[k].text) \subseteq KnownTables
    /\ \A n \in 1..Len(execLog) :
          ~(ReadTables(execLog[n].sql) \subseteq KnownTables) =>
              ~execLog[n].validation.isValid

\* the text ends with a clause LIMIT <n>, n <= max
EndsWithLimitAtMost(s, max) ==
    \E i \in 1..Len(s) :
        LET ws == runEnd(s, i + 5, WhiteSpace)
        IN  /\ matchesAt(s, i, KwLIMIT)
            /\ ws >= i + 5
            /\ ws < Len(s)
            /\ runEnd(s, ws + 1, DigitSet) = Len(s)
            /\ parseInt(SubSeq(s, ws + 1, Len(s))) <= max

\* C24: every statement execute_query sends to the database is bounded by a
\* top-level LIMIT of at most 500 rows: its outermost query carries LIMIT <n>
\* with n <= 500, whether supplied, injected or capped.
C24_ExecutedStatementsAreLimited ==
    \A k \in 1..Len(dbCalls) : EndsWithLimitAtMost(dbCalls[k].text, ExecMaxLimit)

\* the texts sent to the database for the n-th execute_query call
TextsSentFor(n) == {dbCalls[k].text : k \in DbCallsOf(n)}

\* C28: in every successful response the sql field is exactly the text that
\* was sent to the database for the execution whose rows are returned,
\* including the LIMIT that was applied.
C28_ReportedSqlIsExecutedSql ==
    (response # <<>> /\ response[1].kind = "success") =>
        /\ Len(response[1].sql) = 1
        /\ TextsSentFor(Len(execLog)) = {response[1].sql[1]}

\* the repair path was taken: repair_sql ran after a first execute_query
RepairPathTaken ==
    \E i \in 1..Len(invoked) : invoked[i] = "repair_sql"

\* toolCalls shows 'repair_sql' followed by a second 'execute_query'
ShowsRepair(calls) ==
    \E i \in 1..(Len(calls) - 1) :
        calls[i] = "repair_sql" /\ calls[i + 1] = "execute_query"

\* C29: in every response of the sequential chat handler, toolCalls names
\* exactly the tool functions invoked during the request, in the order of
\* their invocation, and it shows 'repair_sql' followed by a second
\* 'execute_query' if and only if the repair path was taken.
C29_ToolCallsAreTheInvokedTools ==
    response # <<>> =>
        /\ response[1].toolCalls = invoked
        /\ ShowsRepair(response[1].toolCalls) <=> RepairPathTaken

\* ---------------------------------------------------------------------
\* get_schema (src/lib/tools.ts)

\* { name, type, nullable } of a column
Col(name, type, nullable) == [name |-> name, type |-> type, nullable |-> nullable]

\* { fromTable, fromColumn, toTable, toColumn } of a foreign key
Fk(fromTable, fromColumn, toTable, toColumn) ==
    [fromTable |-> fromTable, fromColumn |-> fromColumn,
     toTable |-> toTable, toColumn |-> toColumn]

\* getHardcodedSchema(): the schema written from the migrations
getHardcodedSchema ==
    [tables |-> <<
      [name |-> "teams", columns |-> <<
            Col("id", "bigint", FALSE),
            Col("team_id", "uuid", TRUE),
            Col("team_key", "text", TRUE),
            Col("team_name", "text", TRUE),
            Col("created_at", "timestamptz", TRUE)>>],
      [name |-> "users", columns |-> <<
            Col("id", "bigint", FALSE),
            Col("user_id", "uuid", FALSE),
            Col("team_id", "uuid", TRUE),
            Col("full_name", "text", FALSE),
            Col("email", "text", FALSE),
            Col("role", "text", TRUE),
            Col("created_at", "timestamptz", TRUE)>>],
      [name |-> "issues", columns |-> <<
            Col("id", "bigint", FALSE),
            Col("issue_id", "uuid", FALSE),
            Col("team_id", "uuid", TRUE),
            Col("sprint_id", "uuid", TRUE),
            Col("issue_key", "text", FALSE),
            Col("title", "text", FALSE),
            Col("description", "text", TRUE),
            Col("issue_type", "text", TRUE),
            Col("priority", "text", TRUE),
            Col("status", "text", TRUE),
            Col("story_points", "integer", TRUE),
            Col("assignee_id", "uuid", TRUE),
            Col("reporter_id", "uuid", TRUE),
            Col("created_at", "timestamptz", TRUE),
            Col("updated_at", "timestamptz", TRUE),
            Col("resolved_at", "timestamptz", TRUE)>>],
      [name |-> "sprints", columns |-> <<
            Col("id", "bigint", FALSE),
            Col("sprint_id", "uuid", FALSE),
            Col("team_id", "uuid", TRUE),
            Col("sprint_name", "text", FALSE),
            Col("start_date", "date", TRUE),
            Col("end_date", "date", TRUE),
            Col("goal", "text", TRUE),
            Col("created_at", "timestamptz", TRUE)>>],
      [name |-> "issue_status_events", columns |-> <<
            Col("id", "bigint", FALSE),
            Col("event_id", "uuid", FALSE),
            Col("issue_id", "uuid", FALSE),
            Col("from_status", "text", TRUE),
            Col("to_status", "text", TRUE),
            Col("changed_at", "timestamptz", TRUE)>>],
      [name |-> "issue_comments", columns |-> <<
            Col("id", "bigint", FALSE),
            Col("comment_id", "uuid", FALSE),
            Col("issue_id", "uuid", FALSE),
            Col("author_id", "uuid", TRUE),
            Col("body", "text", FALSE),
            Col("created_at", "timestamptz", TRUE)>>]>>,
     foreignKeys |-> <<
      Fk("users", "team_id", "teams", "team_id"),
      Fk("issues", "team_id", "teams", "team_id"),
      Fk("issues", "assignee_id", "users", "user_id"),
      Fk("issues", "reporter_id", "users", "user_id"),
      Fk("issues", "sprint_id", "sprints", "sprint_id"),
      Fk("sprints", "team_id", "teams", "team_id"),
      Fk("issue_status_events", "issue_id", "issues", "issue_id"),
      Fk("issue_comments", "issue_id", "issues", "issue_id"),
      Fk("issue_comments", "author_id", "users", "user_id")>>]

\* the rows of information_schema.columns the database may answer with
SchemaRows ==
    { [table_name |-> "teams", column_name |-> "id", data_type |-> "bigint",
       is_nullable |-> "NO"],
      [table_name |-> "teams", column_name |-> "team_name", data_type |-> "text",
       is_nullable |-> "YES"],
      [table_name |-> "users", column_name |-> "id", data_type |-> "bigint",
       is_nullable |-> "NO"],
      [table_name |-> "issues", column_name |-> "sprint_id", data_type |-> "uuid",
       is_nullable |-> "YES"] }

MaxSchemaRows == 2

\* what supabase.rpc('exec_sql', {query}) gives: { data, error: null } with
\* rows or with data: null, { data: null, error }, or an exception
RpcAnswers ==
    {[kind |-> "data", rows |-> r] :
         r \in UNION {[1..n -> SchemaRows] : n \in 0..MaxSchemaRows}}
        \cup {[kind |-> k, rows |-> <<>>] : k \in {"null", "error", "throws"}}

\* what fetch() of the REST endpoint gives: response.ok, !response.ok, or an
\* exception
RestAnswers == {"ok", "not ok", "throws"}

\* one turn of for (const row of schemaData): the table of the row is added
\* to tableMap at its first row, and the column is pushed to it
AddRow(tabs, row) ==
    LET col == Col(row.column_name, row.data_type, row.is_nullable = "YES")
    IN  IF \E i \in 1..Len(tabs) : tabs[i].name = row.table_name
        THEN LET i == CHOOSE i \in 1..Len(tabs) : tabs[i].name = row.table_name
             IN  [tabs EXCEPT ![i].columns = Append(@, col)]
        ELSE Append(tabs, [name |-> row.table_name, columns |-> <<col>>])

RECURSIVE GroupColumns(_, _)
\* Array.from(tableMap.values()) after the loop over rows, from tabs
GroupColumns(rows, tabs) ==
    IF rows = <<>> THEN tabs
    ELSE GroupColumns(Tail(rows), AddRow(tabs, Head(rows)))

\* Group columns by table: schemaData = tables || []; return { tables:
\* Array.from(tableMap.values()), foreignKeys } with foreignKeys = []
LiveSchema(rows) ==
    [tables |-> GroupColumns(rows, <<>>), foreignKeys |-> <<>>]

\* get_schema(): <<>> when getSupabaseClient() throws out of it, else <<the
\* schema it returns>>. An error of the RPC leads to fetch(); only
\* !response.ok and exceptions are answered with the hardcoded schema.
get_schema(configured, answer, rest) ==
    IF ~configured THEN <<>>
    ELSE IF answer.kind = "throws" THEN <<getHardcodedSchema>>
    ELSE IF answer.kind = "error"
    THEN IF rest = "ok" THEN <<LiveSchema(<<>>)>> ELSE <<getHardcodedSchema>>
    ELSE <<LiveSchema(answer.rows)>>

SchemaInit ==
    /\ spc = "call"
    /\ sConfigured \in BOOLEAN
    /\ sRpc \in RpcAnswers
    /\ sRest \in RestAnswers
    /\ sResult = <<>>
    /\ GuardOff
    /\ HandlerOff
    /\ RepairOff
    /\ ToolUseOff
    /\ HealthOff
    /\ PageOff

\* schema = await get_schema()
SchemaCall ==
    /\ spc = "call"
    /\ sResult' = get_schema(sConfigured, sRpc, sRest)
    /\ spc' = IF sResult' = <<>> THEN "threw" ELSE "returned"
    /\ UNCHANGED <<sConfigured, sRpc, sRest, gvars, hvars, rvars, tvars, kvars, uvars>>

SchemaNext == SchemaCall

SpecSchema == SchemaInit /\ [][SchemaNext]_vars

\* live introspection failed: the RPC returned an error or no rows
IntrospectionFailed ==
    sRpc.kind = "error" \/ (sRpc.kind \in {"data", "null"} /\ sRpc.rows = <<>>)

\* C21: whenever live introspection fails (the exec_sql RPC returns an error
\* or no rows), get_schema returns the hardcoded schema with its six tables
\* and their foreign keys, and it never returns a schema with an empty table
\* list.
C21_SchemaFallback ==
    spc = "returned" =>
        /\ IntrospectionFailed => sResult[1] = getHardcodedSchema
        /\ sResult[1].tables # <<>>

\* ---------------------------------------------------------------------
\* GET of the health route (src/app/api/health/route.ts)

\* the variables of process.env the route reads
HealthVariables ==
    {"NODE_ENV", "ANTHROPIC_API_KEY", "NEXT_PUBLIC_SUPABASE_URL", "SUPABASE_URL",
     "NEXT_PUBLIC_SUPABASE_PUBLISHABLE_DEFAULT_KEY", "NEXT_PUBLIC_SUPABASE_ANON_KEY",
     "SUPABASE_SERVICE_ROLE_KEY"}

\* the variables that hold a secret
SecretVariables ==
    {"ANTHROPIC_API_KEY", "NEXT_PUBLIC_SUPABASE_PUBLISHABLE_DEFAULT_KEY",
     "NEXT_PUBLIC_SUPABASE_ANON_KEY", "SUPABASE_SERVICE_ROLE_KEY"}

\* the values a variable may have: <<>> when it is not set, else <<text>>
EnvValues(name) ==
    CASE name = "NODE_ENV" -> {<<>>, <<<<"p", "r", "o", "d">>>>}
      [] name = "ANTHROPIC_API_KEY" ->
             {<<>>, <<<<"s", "k", "-", "a", "n", "t", "-", "a", "p", "i", "0", "3", "-", "A">>>>,
              <<<<"s", "k", "-", "a", "n", "t", "-", "a", "p", "i", "0", "3", "-", "B">>>>,
              <<<<"s", "k", "-", "a", "n", "t", "-", "k", "e", "y", "9">>>>}
      [] name = "NEXT_PUBLIC_SUPABASE_URL" ->
             {<<>>, <<<<"h", "t", "t", "p", "s", ":", "/", "/", "a", "b", "c", "d", "e", "f", "g", "h", "i", "j", "k", "l", "m", "n", "o", "p", "q", "r", "s", "t", ".", "s", "u", "p", "a", "b", "a", "s", "e", ".", "c", "o">>>>}
      [] name = "SUPABASE_URL" -> {<<>>, <<<<"h", "t", "t", "p", ":", "/", "/", "l", "o", "c", "a", "l", "h", "o", "s", "t">>>>}
      [] name = "NEXT_PUBLIC_SUPABASE_PUBLISHABLE_DEFAULT_KEY" ->
             {<<>>, <<<<"s", "b", "_", "p", "u", "b", "_", "1">>>>}
      [] name = "NEXT_PUBLIC_SUPABASE_ANON_KEY" ->
             {<<>>, <<<<"e", "y", "J", "h", "b", "G", "c", "i", ".", "a">>>>, <<<<"e", "y", "J", "h", "b", "G", "c", "i", ".", "b", "c", "d">>>>}
      [] name = "SUPABASE_SERVICE_ROLE_KEY" ->
             {<<>>, <<<<"e", "y", "J", "h", "b", "G", "c", "i", ".", "s">>>>, <<<<"e", "y", "J", "h", "b", "G", "c", "i", ".", "s", "v", "c">>>>}

\* the environments GET may run in
HealthEnvs ==
    {e \in [HealthVariables -> UNION {EnvValues(n) : n \in HealthVariables}] :
        \A n \in HealthVariables : e[n] \in EnvValues(n)}


NotSet == <<"n", "o", "t", " ", "s", "e", "t">>

Ellipsis == <<".", ".", ".">>

Unknown == <<"u", "n", "k", "n", "o", "w", "n">>

\* !!v of an optional string: set and not empty
Truthy(v) == v # <<>> /\ v[1] # <<>>

\* a || b of optional strings
OrElse(a, b) == IF Truthy(a) THEN a ELSE b

\* s.substring(0, n)
substring0(s, n) == SubSeq(s, 1, IF Len(s) < n THEN Len(s) ELSE n)

\* v?.length || 0, and (v || '').length
lengthOrZero(v) == IF Truthy(v) THEN Len(v[1]) ELSE 0

\* process.env.ANTHROPIC_API_KEY?.substring(0, 10) || 'not set'
keyPrefix(v) ==
    IF v # <<>> /\ substring0(v[1], 10) # <<>> THEN substring0(v[1], 10) ELSE NotSet

\* checks.status from hasAnthropic, hasSupabaseUrl, hasSupabaseKey
healthStatus(hasAnthropic, hasSupabaseUrl, hasSupabaseKey) ==
    IF hasAnthropic /\ hasSupabaseUrl /\ hasSupabaseKey THEN "healthy"
    ELSE IF hasAnthropic \/ (hasSupabaseUrl /\ hasSupabaseKey) THEN "degraded"
    ELSE "unhealthy"

\* statusCode: 200 for healthy and degraded, 503 otherwise
healthStatusCode(status) ==
    IF status = "healthy" THEN 200 ELSE IF status = "degraded" THEN 200 ELSE 503

\* NextResponse.json(checks, { status: statusCode }) of GET in env at now
healthResponse(env, now) ==
    LET anon == OrElse(env["NEXT_PUBLIC_SUPABASE_PUBLISHABLE_DEFAULT_KEY"],
                       env["NEXT_PUBLIC_SUPABASE_ANON_KEY"])
        url == OrElse(OrElse(env["NEXT_PUBLIC_SUPABASE_URL"], env["SUPABASE_URL"]),
                      <<NotSet>>)
        anthropic ==
            [configured |-> Truthy(env["ANTHROPIC_API_KEY"]),
             keyLength |-> lengthOrZero(env["ANTHROPIC_API_KEY"]),
             keyPrefix |-> keyPrefix(env["ANTHROPIC_API_KEY"])]
        supabase ==
            [urlConfigured |-> Truthy(env["NEXT_PUBLIC_SUPABASE_URL"])
                                  \/ Truthy(env["SUPABASE_URL"]),
             url |-> substring0(url[1], 30) \o Ellipsis,
             anonKeyConfigured |->
                 Truthy(env["NEXT_PUBLIC_SUPABASE_PUBLISHABLE_DEFAULT_KEY"])
                     \/ Truthy(env["NEXT_PUBLIC_SUPABASE_ANON_KEY"]),
             serviceKeyConfigured |-> Truthy(env["SUPABASE_SERVICE_ROLE_KEY"]),
             anonKeyLength |-> lengthOrZero(anon),
             serviceKeyLength |-> lengthOrZero(env["SUPABASE_SERVICE_ROLE_KEY"])]
        status == healthStatus(anthropic.configured, supabase.urlConfigured,
                               supabase.anonKeyConfigured
                                   \/ supabase.serviceKeyConfigured)
    IN  [timestamp |-> now,
         environment |-> OrElse(env["NODE_ENV"], <<Unknown>>)[1],
         anthropic |-> anthropic,
         supabase |-> supabase,
         status |-> status,
         statusCode |-> healthStatusCode(status)]

\* the times new Date() may give
Timestamps == {1, 2}

HealthInit ==
    /\ kpc = "request"
    /\ kEnv \in HealthEnvs
    /\ kNow = 0
    /\ kResponse = <<>>
    /\ GuardOff
    /\ HandlerOff
    /\ RepairOff
    /\ ToolUseOff
    /\ SchemaOff
    /\ PageOff

\* export async function GET()
HealthGet ==
    /\ kpc = "request"
    /\ \E now \in Timestamps :
          /\ kNow' = now
          /\ kResponse' = <<healthResponse(kEnv, now)>>
    /\ kpc' = "responded"
    /\ UNCHANGED <<kEnv, gvars, hvars, rvars, tvars, svars, uvars>>

HealthNext == HealthGet

SpecHealth == HealthInit /\ [][HealthNext]_vars

\* two environments that differ at most in the values of secrets that are
\* set in both
SameApartFromSecretValues(e1, e2) ==
    /\ \A n \in HealthVariables \ SecretVariables : e1[n] = e2[n]
    /\ \A n \in SecretVariables : Truthy(e1[n]) <=> Truthy(e2[n])

\* C25: the body and the status code of the health response depend only on
\* which environment variables are set, not on the value of any secret: an
\* environment in which the same secrets are set, with other values, gets
\* the same response at the same time.
C25_HealthIndependentOfSecretValues ==
    kpc = "responded" =>
        \A e \in HealthEnvs :
            SameApartFromSecretValues(kEnv, e) =>
                healthResponse(e, kNow) = kResponse[1]

\* ---------------------------------------------------------------------
\* the page (src/app/page.tsx, src/components/ChatConsole.tsx)

MaxQueries == 3

\* what the user may have typed into the input of Composer
InputTexts == {<<>>, <<" ">>, <<"q">>, <<" ", "q">>}

\* the suggestion of an assistant message that is clicked
SuggestionText == <<"s">>

\* a Message; req is the handleRunQuery call that wrote it, 0 for none
Message(role, content, isInitial, req) ==
    [role |-> role, content |-> content, isInitial |-> isInitial, req |-> req]

\* the message of useState<Message[]>
WelcomeMessage == Message("assistant", "Welcome to SprintScope", TRUE, 0)

\* the message of handleReset
ResetMessage == Message("assistant", "Session reset", TRUE, 0)

\* how fetch('/api/chat') of a call ends: ok with data.sql || data.results,
\* ok with neither, or !response.ok or an exception
FetchOutcomes == {"data", "no data", "failed"}

PageInit ==
    /\ upc = "mounted"
    /\ messages = <<WelcomeMessage>>
    /\ isLoading = FALSE
    /\ queryData = <<>>
    /\ input = <<>>
    /\ inFlight = {}
    /\ started = 0
    /\ GuardOff
    /\ HandlerOff
    /\ RepairOff
    /\ ToolUseOff
    /\ SchemaOff
    /\ HealthOff

\* handleRunQuery(query) up to await fetch('/api/chat', ...)
handleRunQuery(query) ==
    /\ started < MaxQueries
    /\ started' = started + 1
    /\ messages' = Append(messages, Message("user", query, FALSE, started + 1))
    /\ isLoading' = TRUE
    /\ inFlight' = inFlight \cup {started + 1}
    /\ UNCHANGED queryData

\* onChange of the input: setInput(e.target.value)
TypeInput ==
    /\ upc = "mounted"
    /\ \E t \in InputTexts \ {input} : input' = t
    /\ UNCHANGED <<upc, messages, isLoading, queryData, inFlight, started,
                   gvars, hvars, rvars, tvars, svars, kvars>>

\* handleSubmit of Composer (the submit button and the Enter key): if
\* (input.trim() && !isLoading) { onRunQuery(input); setInput("") }
ComposerSubmit ==
    /\ upc = "mounted"
    /\ trim(input) # <<>> /\ ~isLoading
    /\ handleRunQuery(input)
    /\ input' = <<>>
    /\ UNCHANGED <<upc, gvars, hvars, rvars, tvars, svars, kvars>>

\* onClick of a suggestion of an assistant message:
\* onSuggestionClick?.(suggestion), which is handleRunQuery
SuggestionClick ==
    /\ upc = "mounted"
    /\ \E i \in 1..Len(messages) : messages[i].role = "assistant"
    /\ handleRunQuery(SuggestionText)
    /\ UNCHANGED <<upc, input, gvars, hvars, rvars, tvars, svars, kvars>>

\* handleRunQuery after its await, for the call req: the assistant message
\* (or the error message of the catch) is appended, queryData is set if
\* (data.sql || data.results), and finally setIsLoading(false)
FetchSettles ==
    /\ upc = "mounted"
    /\ \E req \in inFlight, outcome \in FetchOutcomes :
          /\ inFlight' = inFlight \ {req}
          /\ messages' = Append(messages,
                 Message("assistant",
                         IF outcome = "failed" THEN "Sorry, I encountered an error"
                         ELSE "data.response", FALSE, req))
          /\ queryData' = IF outcome = "data" THEN <<[req |-> req]>> ELSE queryData
    /\ isLoading' = FALSE
    /\ UNCHANGED <<upc, input, started, gvars, hvars, rvars, tvars, svars, kvars>>

\* handleReset: setMessages([the reset message]); setQueryData(null)
handleReset ==
    /\ upc = "mounted"
    /\ messages' = <<ResetMessage>>
    /\ queryData' = <<>>
    /\ UNCHANGED <<upc, isLoading, input, inFlight, started,
                   gvars, hvars, rvars, tvars, svars, kvars>>

PageNext ==
    \/ TypeInput
    \/ ComposerSubmit
    \/ SuggestionClick
    \/ FetchSettles
    \/ handleReset

SpecPage == PageInit /\ [][PageNext]_vars

\* C26: from the moment handleRunQuery sets isLoading until it resets it, no
\* second query is started through any submission path, so at most one
\* /api/chat request of the page is in flight at any time.
C26_AtMostOneRequestInFlight ==
    Cardinality(inFlight) <= 1

\* the conversation holds the question of the handleRunQuery call req
HoldsQuestionOf(req) ==
    \E i \in 1..Len(messages) : messages[i].role = "user" /\ messages[i].req = req

\* the user has submitted no query since the last reset
NoQuerySinceReset ==
    /\ messages[1] = ResetMessage
    /\ \A i \in 1..Len(messages) : messages[i].role # "user"

\* C30: after handleReset the conversation holds only the reset message and
\* queryData is null until a new query is submitted, and the response of a
\* request that was in flight at the reset is neither appended to the reset
\* conversation nor written to queryData.
C30_ResetIsolatesSession ==
    upc = "mounted" =>
        /\ NoQuerySinceReset => messages = <<ResetMessage>> /\ queryData = <<>>
        /\ \A i \in 1..Len(messages) :
               (messages[i].role = "assistant" /\ ~messages[i].isInitial)
                   => HoldsQuestionOf(messages[i].req)
        /\ queryData # <<>> => HoldsQuestionOf(queryData[1].req)

====
